---- MODULE Spec2Model ----
(***************************************************************************)
(* Butler background service worker (src/background.js).                   *)
(*                                                                         *)
(* The module models the archive orchestrator processAndArchiveEmails as   *)
(* a state machine whose steps are the stretches of synchronous code       *)
(* between two awaits, together with the part of the remote mailbox the    *)
(* orchestrator reads and writes (folder membership, change keys).         *)
(* The folder aggregator fetchMessagesAcrossInboxAndSubfolders is also     *)
(* followed one page at a time, and the triage pipeline (askOllama,        *)
(* processAIPrompt, classifyAndMoveEmails, findOrCreateFolder) one await   *)
(* at a time.                                                              *)
(***************************************************************************)
EXTENDS Integers, Sequences, FiniteSets, TLC

(* ----------------------------- bounds --------------------------------- *)

\* number of mail items in the modelled mailbox
NItems == 3
\* number of live (non-dry-run) invocations that pass the guard
MaxLiveRuns == 1
\* number of remote calls that may fail during one invocation
MaxFaults == 1
\* number of folders of a scan that is followed page by page
MaxScanFolders == 2
\* pages of such a scan that are longer than asked for or hold only records
\* already seen
MaxOddPages == 1
\* pages of a scan that is followed record by record
MaxMergePages == 3
\* triage runs in flight at a time
MaxLiveTriage == 1
MaxListed == 31
NTokens == 2
MaxCaptures == 3
MaxTicks == 3
MaxStored == 3

(* ------------------------ program constants --------------------------- *)

MAX_EMAILS_TO_PROCESS == 2000
MAX_FOLDERS_TO_PROCESS == 30
MIN_EMAILS_PER_FOLDER == 50
MAX_EMAILS_PER_FOLDER == 2000
FINDITEM_PAGE_SIZE == 200
DEFAULT_EMAIL_ITERATIONS == 20
MAX_TOKENS_STORED == 50
TOKEN_EXPIRY_MS == 24 * 60 * 60 * 1000

(* --------------------------- value spaces ----------------------------- *)

Items == 1..NItems
\* the concurrent invocations of the message handler
Runs == {"r1", "r2"}
\* the handler takes the free invocation slots in this order
RunOrder(r) == IF r = "r1" THEN 1 ELSE 2
\* the headers of an item: its Message-ID ("" when the header is absent) and
\* the parsed In-Reply-To and References lists
Header(messageId, inReplyTo, references) ==
  [ messageId |-> messageId, inReplyTo |-> inReplyTo, references |-> references ]

\* the items of the mailboxes the archive runs work on: an original, a reply
\* to it, and a reply to it that carries no Message-ID of its own
ThreadHeaders ==
  { Header("<a>", <<>>, <<>>),
    Header("<b>", <<"<a>">>, <<>>),
    Header("", <<"<a>">>, <<>>) }

\* the items of the mailboxes the scans alone work on
MsgIds == {"<a>", "<b>"}
HeaderShapes ==
  { <<(<<>>), (<<>>)>>,
    <<(<<"<a>">>), (<<>>)>>,
    <<(<<"<b>">>), (<<"<a>">>)>>,
    <<(<<>>), (<<"<a>", "<b>">>)>> }
ScanHeaders ==
  { Header(m, h[1], h[2]) : m \in MsgIds \cup {""}, h \in HeaderShapes }

Min2(a, b) == IF a <= b THEN a ELSE b
Min3(a, b, c) == Min2(a, Min2(b, c))
Max2(a, b) == IF a >= b THEN a ELSE b
\* ceil(a / b) for positive b
CeilDiv(a, b) == (a + b - 1) \div b
Range(s) == { s[k] : k \in 1..Len(s) }

VARIABLES
  hdr,          \* item -> [messageId, inReplyTo, references], the item's headers
  loc,          \* item -> folder currently holding it in the remote mailbox
  ck,           \* item -> current change key (revision) in the remote mailbox
  dupPlace,     \* where a folder named "Duplicates" lives: "absent", "root", "inbox"
  processingInProgress,  \* the single-flight flag
  run,          \* invocation -> the locals of processAndArchiveEmails
  calls,        \* invocation -> the remote calls it has issued, in order
  lastProcessingResult,  \* chrome.storage.local lastProcessingResult
  started,      \* live invocations that passed the guard so far
  scan,         \* the locals of one fetchMessagesAcrossInboxAndSubfolders call,
                \* with the message list and the pages reduced to their sizes
  merge,        \* the message list of one such call record by record, with the
                \* pages that arrived so far
  triage,       \* askOllama message -> the locals of processAIPrompt and of
                \* classifyAndMoveEmails, the calls issued and the onProgress
                \* invocations so far
  classificationAborted,   \* the cancellation flag
  classificationProgress,  \* the progress shown to a poller
  labelFolders, \* the triage folders present under the mailbox root
  everResolved, \* the labels resolved by triage runs that have returned
  previous,     \* the response to the last dry run that was answered
  capturedTokens,      \* chrome.storage.local capturedTokens
  pendingTokens,       \* the pendingTokens map, in insertion order
  storeTokensTimeout,  \* the debounce timer is armed
  flush,        \* flushPendingTokens call -> its locals and those of storeToken
  clock,        \* Date.now(), in hours
  handler,      \* the archiveRepliedEmails message being handled
  captures      \* Authorization headers seen by the listener so far

vars == <<hdr, loc, ck, dupPlace, processingInProgress, run, calls,
          lastProcessingResult, started, scan, merge, triage,
          classificationAborted, classificationProgress, labelFolders,
          everResolved, previous, capturedTokens, pendingTokens,
          storeTokensTimeout, flush, clock, handler, captures>>

\* the token store, its debounced writer and the handler that reads it
tokenVars == <<capturedTokens, pendingTokens, storeTokensTimeout, flush, clock,
               handler, captures>>

\* the state of the archive orchestrator and of the mailbox it works on
orchestratorVars == <<hdr, loc, ck, dupPlace, processingInProgress, run, calls,
                      lastProcessingResult, started>>

\* that state with what is known of it outside the orchestrator
archiveVars == <<orchestratorVars, previous, tokenVars>>

\* the state the archive orchestrator's steps leave alone
\* the state of the triage pipeline and of the folders it creates
triageVars == <<triage, classificationAborted, classificationProgress,
                labelFolders, everResolved>>

aside == <<scan, merge, triageVars, previous, tokenVars>>

storeVars == <<hdr, loc, ck, dupPlace>>

(* ------------------------ the remote mailbox -------------------------- *)

\* items of a folder in listing order (the remote sort; by item number here)
RECURSIVE ListingFrom(_, _)
ListingFrom(folder, i) ==
  IF i > NItems THEN <<>>
  ELSE (IF loc[i] = folder THEN <<i>> ELSE <<>>) \o ListingFrom(folder, i + 1)

FolderListing(folder) == ListingFrom(folder, 1)

\* the record fetchInboxMessages / fetchFolderMessagesById builds for an item
MessageRecord(i, folderName) ==
  [ id           |-> i,
    changeKey    |-> ck[i],
    messageId    |-> hdr[i].messageId,
    inReplyTo    |-> hdr[i].inReplyTo,
    references   |-> hdr[i].references,
    sourceFolder |-> folderName ]

\* one FindItem page: at most maxCount records starting at offset
FetchPage(folder, maxCount, offset) ==
  LET all == FolderListing(folder)
      last == Min2(Len(all), offset + maxCount)
  IN [ k \in 1..Max2(0, last - offset) |-> MessageRecord(all[offset + k], folder) ]

\* listInboxSubfolders: deep traversal below the Inbox
InboxSubfolders ==
  <<"Sub">> \o (IF dupPlace = "inbox" THEN <<"Duplicates">> ELSE <<>>)

\* findFolderByName: deep traversal below the mailbox root, match on DisplayName
FindFolderByName(name) ==
  IF name = "Duplicates" /\ dupPlace # "absent" THEN "Duplicates"
  ELSE IF name = "Sub" THEN "Sub"
  ELSE "none"

(* ---------------- fetchMessagesAcrossInboxAndSubfolders ---------------- *)

\* lines 1028-1036: the folder set built from the Inbox entry and the listed
\* subfolders
ScanFoldersFrom(inbox, subfolders, includeSubfolders) ==
  LET remainingSlots == Max2(0, MAX_FOLDERS_TO_PROCESS - 1)
  IN <<inbox>> \o
     (IF includeSubfolders
        THEN SubSeq(subfolders, 1, Min2(Len(subfolders), remainingSlots))
        ELSE <<>>)

\* the folder set of a scan; listFails: the FindFolder call of
\* listInboxSubfolders failed and it returned []
ScanFolders(includeSubfolders, listFails) ==
  ScanFoldersFrom("Inbox", IF listFails THEN <<>> ELSE InboxSubfolders,
                  includeSubfolders)

\* a set of seen ids that stays empty
NoSeenItemIds(messages) == {}

SeenItemIds(messages) == { messages[k].id : k \in 1..Len(messages) }

\* the id of a record whose item came without ItemId.Id (undefined or "")
NoStringId == 0

\* line 1074: the record has a non-empty string id
HasStringId(msg) == msg.id # NoStringId

\* the for-loop over one page: skip records without a string id and seen ids,
\* push, stop at the global cap
RECURSIVE IncludePage(_, _, _)
IncludePage(page, k, acc) ==
  IF k > Len(page) THEN acc
  ELSE IF ~HasStringId(page[k]) THEN IncludePage(page, k + 1, acc)
  ELSE IF page[k].id \in SeenItemIds(acc.messages)
    THEN IncludePage(page, k + 1, acc)
  ELSE LET pushed == [acc EXCEPT !.messages = Append(@, page[k]),
                                 !.included = @ + 1]
       IN IF Len(pushed.messages) >= MAX_EMAILS_TO_PROCESS
            THEN pushed
            ELSE IncludePage(page, k + 1, pushed)

\* the while-loop paging one folder; failing: folders whose FindItem throws
RECURSIVE PageLoop(_, _, _)
PageLoop(folder, failing, acc) ==
  LET perFolderMax == Min2(MAX_EMAILS_PER_FOLDER, MAX_EMAILS_TO_PROCESS)
      maxPagesPerFolder == CeilDiv(perFolderMax, FINDITEM_PAGE_SIZE)
      pageSize == Min3(FINDITEM_PAGE_SIZE, perFolderMax - acc.fetched,
                       MAX_EMAILS_TO_PROCESS - Len(acc.messages))
  IN IF ~(Len(acc.messages) < MAX_EMAILS_TO_PROCESS
          /\ acc.fetched < perFolderMax
          /\ acc.pageIndex < maxPagesPerFolder)
       THEN acc
     ELSE IF pageSize <= 0 THEN acc
     ELSE IF folder \in failing THEN [acc EXCEPT !.pageError = TRUE]
     ELSE LET pageMessages == FetchPage(folder, pageSize, acc.offset)
              counted == [acc EXCEPT !.fetched = @ + Len(pageMessages)]
              included == IncludePage(pageMessages, 1, counted)
          IN IF Len(pageMessages) < pageSize
               THEN included
               ELSE PageLoop(folder, failing,
                             [included EXCEPT !.offset = @ + pageSize,
                                              !.pageIndex = @ + 1])

\* the for-loop over the folders, with the early return at the global cap
RECURSIVE FolderLoop(_, _, _, _, _)
FolderLoop(folders, k, failing, messages, folderStats) ==
  IF k > Len(folders) THEN [messages |-> messages, folderStats |-> folderStats]
  ELSE
    LET done == PageLoop(folders[k], failing,
                         [messages |-> messages, fetched |-> 0, included |-> 0,
                          offset |-> 0, pageIndex |-> 0, pageError |-> FALSE])
        row == [folder |-> folders[k], fetched |-> done.fetched,
                included |-> done.included, error |-> done.pageError]
        stats == Append(folderStats, row)
    IN IF Len(done.messages) >= MAX_EMAILS_TO_PROCESS
         THEN [messages |-> done.messages, folderStats |-> stats]
         ELSE FolderLoop(folders, k + 1, failing, done.messages, stats)

fetchMessagesAcrossInboxAndSubfolders(includeSubfolders, listFails, failing) ==
  FolderLoop(ScanFolders(includeSubfolders, listFails), 1, failing, <<>>, <<>>)

(* ------- the same scan, one page request at a time, by sizes only ------ *)

\* lines 1020-1025: the per-folder share of the global cap; the scan below
\* does not call it
calculatePerFolderLimit(folderCount) ==
  LET safeFolderCount == IF folderCount > 0 THEN folderCount ELSE 1
      raw == MAX_EMAILS_TO_PROCESS \div safeFolderCount
  IN Min2(MAX_EMAILS_PER_FOLDER, Max2(MIN_EMAILS_PER_FOLDER, raw))

\* line 1042
PerFolderMax == Min2(MAX_EMAILS_PER_FOLDER, MAX_EMAILS_TO_PROCESS)

\* line 1043
MaxPagesPerFolder == CeilDiv(PerFolderMax, FINDITEM_PAGE_SIZE)

IdleScan ==
  [ pc |-> "idle", folderCount |-> 0, folder |-> 0, messagesLen |-> 0,
    fetchedFromFolder |-> 0, includedFromFolder |-> 0, offset |-> 0,
    pageIndex |-> 0, pageSize |-> 0, folderStats |-> <<>>, honest |-> TRUE,
    odd |-> 0, includeSubfolders |-> FALSE, listing |-> "none",
    listed |-> <<>>, folders |-> <<>> ]

\* lines 1046-1050: the locals at the start of a folder
AtFolder(s, k) ==
  [s EXCEPT !.folder = k, !.fetchedFromFolder = 0, !.includedFromFolder = 0,
            !.offset = 0, !.pageIndex = 0, !.pageSize = 0]

\* line 1052: the condition of the while loop
LoopHolds(s) ==
  /\ s.messagesLen < MAX_EMAILS_TO_PROCESS
  /\ s.fetchedFromFolder < PerFolderMax
  /\ s.pageIndex < MaxPagesPerFolder

\* lines 1053-1055: the size asked of the next page
RequestSize(s) ==
  Min3(FINDITEM_PAGE_SIZE, PerFolderMax - s.fetchedFromFolder,
       MAX_EMAILS_TO_PROCESS - s.messagesLen)

\* lines 1090-1095: the stats entry of the folder just left
StatsRow(s, pageError) ==
  [ folder |-> s.folder, fetched |-> s.fetchedFromFolder,
    included |-> s.includedFromFolder, error |-> pageError,
    truncated |-> ~pageError /\ ( \/ s.fetchedFromFolder >= PerFolderMax
                                  \/ s.messagesLen >= MAX_EMAILS_TO_PROCESS ) ]

\* a scan that returns only after the last folder
ScanOverAtEnd(s, pageError) == s.folder = s.folderCount

\* a scan that gives up at the first page error
ScanOverAfterError(s, pageError) ==
  \/ pageError
  \/ s.messagesLen >= MAX_EMAILS_TO_PROCESS
  \/ s.folder = s.folderCount

\* lines 1097-1103: the scan returns after this folder
ScanOver(s, pageError) ==
  \/ s.messagesLen >= MAX_EMAILS_TO_PROCESS
  \/ s.folder = s.folderCount

\* the synchronous code from the top of the while loop to the next page
\* request or to the return
RECURSIVE NextRequest(_)
RECURSIVE FolderFinished(_, _)
NextRequest(s) ==
  IF LoopHolds(s) /\ RequestSize(s) > 0
    THEN [s EXCEPT !.pc = "page", !.pageSize = RequestSize(s)]
    ELSE FolderFinished(s, FALSE)

FolderFinished(s, pageError) ==
  LET left == [s EXCEPT !.folderStats = Append(@, StatsRow(s, pageError)),
                        !.pageSize = 0]
  IN IF ScanOver(s, pageError)
       THEN [left EXCEPT !.pc = "returned"]
       ELSE NextRequest(AtFolder(left, s.folder + 1))

\* a loop over the page that pushes every new record
PushedAll(fresh, messagesLen) == fresh

\* lines 1073-1080: the records pushed from a page holding `fresh` records
\* with a new string id; the loop breaks at the global cap
Pushed(fresh, messagesLen) ==
  Min2(fresh, MAX_EMAILS_TO_PROCESS - messagesLen)

\* a loop that pages on until a page comes back empty
EndOfFolderOnEmpty(len, pageSize) == len = 0

\* lines 1082-1085: the server returned fewer than requested
EndOfFolder(len, pageSize) == len < pageSize

\* the FindItem answers that are followed: a full, a short or an empty page of
\* new records; a page longer than asked for; a full page of records all seen
PageShapes(pageSize) ==
  { [len |-> pageSize, fresh |-> pageSize, odd |-> FALSE],
    [len |-> pageSize \div 2, fresh |-> pageSize \div 2, odd |-> FALSE],
    [len |-> 0, fresh |-> 0, odd |-> FALSE],
    [len |-> pageSize + 1, fresh |-> pageSize + 1, odd |-> TRUE],
    [len |-> pageSize, fresh |-> 0, odd |-> TRUE] }

\* line 1028-1037: the folder list is built; the scan starts on the Inbox
StartScan ==
  /\ scan.pc = "idle"
  /\ \E n \in 1..MaxScanFolders :
       /\ n <= MAX_FOLDERS_TO_PROCESS
       /\ scan' = NextRequest(AtFolder([IdleScan EXCEPT !.folderCount = n], 1))
  /\ UNCHANGED <<archiveVars, merge, triageVars>>

\* lines 1059-1088: a page of `len` records arrives, `fresh` of them new
PageArrives ==
  /\ scan.pc = "page"
  /\ \E page \in PageShapes(scan.pageSize) :
       LET len == page.len
           pushed == Pushed(page.fresh, scan.messagesLen)
           counted == [scan EXCEPT
                         !.fetchedFromFolder = @ + len,
                         !.includedFromFolder = @ + pushed,
                         !.messagesLen = @ + pushed,
                         !.honest = @ /\ len <= scan.pageSize,
                         !.odd = @ + (IF page.odd THEN 1 ELSE 0)]
       IN /\ page.odd => scan.odd < MaxOddPages
          /\ scan' = IF EndOfFolder(len, scan.pageSize)
                    THEN FolderFinished(counted, FALSE)
                    ELSE NextRequest([counted EXCEPT
                                        !.offset = @ + scan.pageSize,
                                        !.pageIndex = @ + 1])
  /\ UNCHANGED <<archiveVars, merge, triageVars>>

\* lines 1065-1069: the page request throws
PageFails ==
  /\ scan.pc = "page"
  /\ scan' = FolderFinished(scan, TRUE)
  /\ UNCHANGED <<archiveVars, merge, triageVars>>

\* line 1103: the caller has the result
ScanReturns ==
  /\ scan.pc = "returned"
  /\ scan' = IdleScan
  /\ UNCHANGED <<archiveVars, merge, triageVars>>

(* ---------------- the folder set of a scan, entry by entry --------------- *)

\* the answers of the FindFolder request of listInboxSubfolders
ListingOutcomes ==
  {"ok", "expired", "httpError", "emptyBody", "notJson", "errorCode", "thrown"}

\* the Folders of an answer: `count` entries with ids 1..count, the entries at
\* the positions in `blank` without FolderId.Id (0), those in `unnamed`
\* without DisplayName
RootFolders(count, blank, unnamed) ==
  [ k \in 1..count |->
      [ id |-> IF k \in blank THEN 0 ELSE k,
        name |-> IF k \in unnamed THEN "" ELSE "folder" ] ]

ListingShapes ==
  { RootFolders(count, blank, unnamed) :
      count \in 0..MaxListed, blank \in SUBSET {1, 2}, unnamed \in SUBSET {2, 3} }

\* a listing whose 401 and network errors escape to the caller
listInboxSubfoldersUncaught(outcome, rootFolders) ==
  [ threw |-> outcome \in {"expired", "thrown"},
    folders |-> IF outcome = "ok"
                  THEN SelectSeq(rootFolders, LAMBDA f : f.id # 0)
                  ELSE <<>> ]

\* lines 921-1018: every failure is logged and answered with []; entries
\* without an id are dropped
listInboxSubfolders(outcome, rootFolders) ==
  [ threw |-> FALSE,
    folders |-> IF outcome = "ok"
                  THEN SelectSeq(rootFolders, LAMBDA f : f.id # 0)
                  ELSE <<>> ]

\* line 1034: the entry pushed for a listed subfolder
SubfolderEntry(f) ==
  [ kind |-> "folderId", id |-> f.id,
    name |-> IF f.name # "" THEN f.name ELSE "(Unnamed)" ]

\* line 1028
InboxEntry == [ kind |-> "distinguished", id |-> 0, name |-> "Inbox" ]

\* lines 1027-1030: the scan is called; subfolders are listed only on request
ScanInvoked ==
  /\ scan.pc = "idle"
  /\ \E includeSubfolders \in BOOLEAN :
       scan' = IF includeSubfolders
                 THEN [IdleScan EXCEPT !.pc = "listing",
                                       !.includeSubfolders = TRUE]
                 ELSE [IdleScan EXCEPT
                         !.pc = "built",
                         !.folders = ScanFoldersFrom(InboxEntry, <<>>, FALSE),
                         !.folderCount = 1]
  /\ UNCHANGED <<archiveVars, merge, triageVars>>

\* lines 1031-1036: listInboxSubfolders answers and the folder set is built
SubfoldersListed ==
  /\ scan.pc = "listing"
  /\ \E outcome \in ListingOutcomes, rootFolders \in ListingShapes :
       LET answer == listInboxSubfolders(outcome, rootFolders)
           subfolders == [ k \in 1..Len(answer.folders) |->
                             SubfolderEntry(answer.folders[k]) ]
           folders == ScanFoldersFrom(InboxEntry, subfolders, TRUE)
       IN /\ outcome = "ok" \/ rootFolders = <<>>
          /\ scan' = IF answer.threw
                       THEN [scan EXCEPT !.pc = "threw", !.listing = outcome]
                       ELSE [scan EXCEPT !.pc = "built", !.listing = outcome,
                                         !.listed = rootFolders,
                                         !.folders = folders,
                                         !.folderCount = Len(folders)]
  /\ UNCHANGED <<archiveVars, merge, triageVars>>

\* line 1038: the scan goes on to its folder loop, or the listing's error
\* has left it
FolderSetUsed ==
  /\ scan.pc \in {"built", "threw"}
  /\ scan' = IdleScan
  /\ UNCHANGED <<archiveVars, merge, triageVars>>

(* ------------ the same scan, one page at a time, by records ------------ *)

\* the ids the pages carry, and the id lists of the pages that arrive
MergeIds == {1, 2}
PageIdLists ==
  {<<>>} \cup { <<a>> : a \in MergeIds \cup {NoStringId} }
         \cup { <<a, b>> : a, b \in MergeIds \cup {NoStringId} }
MergeFolders == <<"Inbox", "Sub">>

IdleMerge ==
  [ folder |-> 1, messages |-> <<>>, included |-> 0, pages |-> 0,
    arrived |-> <<>> ]

\* lines 1059-1080: a page of the current or of the next folder arrives and
\* runs through the for-loop; `arrived` keeps every record that came, in order
PageMerged ==
  /\ merge.pages < MaxMergePages
  /\ \E ids \in PageIdLists : \E f \in {merge.folder, merge.folder + 1} :
       /\ f <= Len(MergeFolders)
       /\ LET page == [ k \in 1..Len(ids) |->
                         [id |-> ids[k], sourceFolder |-> MergeFolders[f]] ]
              acc == IncludePage(page, 1,
                       [ messages |-> merge.messages,
                         included |-> IF f = merge.folder
                                        THEN merge.included ELSE 0 ])
          IN merge' = [ folder |-> f, messages |-> acc.messages,
                        included |-> acc.included, pages |-> merge.pages + 1,
                        arrived |-> merge.arrived \o page ]
  /\ UNCHANGED <<archiveVars, scan, triageVars>>

\* line 1103: the caller has the message list
MergeReturns ==
  /\ merge.pages > 0
  /\ merge' = IdleMerge
  /\ UNCHANGED <<archiveVars, scan, triageVars>>

(* --------------- reply graph and duplicate grouping -------------------- *)

\* the loop filling repliedToIds from every record's inReplyTo and references
RECURSIVE RepliedToIdsFrom(_, _, _)
RepliedToIdsFrom(messages, k, acc) ==
  IF k > Len(messages) THEN acc
  ELSE RepliedToIdsFrom(messages, k + 1,
         acc \cup Range(messages[k].inReplyTo) \cup Range(messages[k].references))

\* a reference set built from the In-Reply-To headers alone
RepliedToIdsInReplyToOnly(messages) ==
  UNION { Range(messages[k].inReplyTo) : k \in 1..Len(messages) }

\* a reference set that skips the records without a Message-ID
RepliedToIdsOfIdentified(messages) ==
  UNION { Range(messages[k].inReplyTo) \cup Range(messages[k].references) :
            k \in { j \in 1..Len(messages) : messages[j].messageId # "" } }

\* lines 1656-1667: repliedToIds after the loop over all messages
RepliedToIds(messages) == RepliedToIdsFrom(messages, 1, {})

\* a filter that keeps every record that has a Message-ID
IsIdentified(msg, repliedToIds) == msg.messageId # ""

\* the filter predicate of toArchive / toArchiveRefresh
IsRepliedTo(msg, repliedToIds) ==
  IF msg.messageId = "" THEN FALSE ELSE msg.messageId \in repliedToIds

ToArchive(messages) ==
  SelectSeq(messages, LAMBDA msg : IsRepliedTo(msg, RepliedToIds(messages)))

\* emailGroups: a Map keyed by messageId, iterated in key insertion order;
\* modelled as the sequence of its entries
RECURSIVE EmailGroupsFrom(_, _, _)
EmailGroupsFrom(messages, k, groups) ==
  IF k > Len(messages) THEN groups
  ELSE LET msg == messages[k]
           at == { g \in 1..Len(groups) : groups[g].messageId = msg.messageId }
       IN IF msg.messageId = "" THEN EmailGroupsFrom(messages, k + 1, groups)
          ELSE IF at = {}
            THEN EmailGroupsFrom(messages, k + 1,
                   Append(groups, [messageId |-> msg.messageId, emails |-> <<msg>>]))
          ELSE LET g == CHOOSE x \in at : TRUE
               IN EmailGroupsFrom(messages, k + 1,
                    [groups EXCEPT ![g].emails = Append(@, msg)])

EmailGroups(messages) == EmailGroupsFrom(messages, 1, <<>>)

RECURSIVE DuplicateCountFrom(_, _)
DuplicateCountFrom(groups, g) ==
  IF g > Len(groups) THEN 0
  ELSE (IF Len(groups[g].emails) > 1 THEN Len(groups[g].emails) - 1 ELSE 0)
       + DuplicateCountFrom(groups, g + 1)

DuplicateCount(messages) == DuplicateCountFrom(EmailGroups(messages), 1)

\* the records the dedup pass moves, in the order of its two nested loops:
\* for every group with more than one record, emails.slice(1)
RECURSIVE ToMoveFrom(_, _)
ToMoveFrom(groups, g) ==
  IF g > Len(groups) THEN <<>>
  ELSE (IF Len(groups[g].emails) > 1 THEN Tail(groups[g].emails) ELSE <<>>)
       \o ToMoveFrom(groups, g + 1)

\* a dedup pass that keeps the last record of each group and moves the others
DuplicatesKeepingLast(messages) ==
  SelectSeq(messages,
    LAMBDA m :
      /\ m.messageId # ""
      /\ \E j, k \in 1..Len(messages) :
           /\ messages[j].id = m.id
           /\ j < k
           /\ messages[k].messageId = m.messageId)

\* lines 1746-1751: the records the dedup pass moves
DuplicatesToMove(messages) == ToMoveFrom(EmailGroups(messages), 1)

(* ------------------------- log and counting --------------------------- *)

\* countByFolder: one {folder, count} row per source folder, in first-seen
\* order, then sorted by descending count (Array.prototype.sort is stable)
RECURSIVE CountRowsFrom(_, _, _)
CountRowsFrom(messages, k, rows) ==
  IF k > Len(messages) THEN rows
  ELSE LET folder == messages[k].sourceFolder
           at == { x \in 1..Len(rows) : rows[x].folder = folder }
       IN IF at = {}
            THEN CountRowsFrom(messages, k + 1,
                               Append(rows, [folder |-> folder, count |-> 1]))
            ELSE LET x == CHOOSE y \in at : TRUE
                 IN CountRowsFrom(messages, k + 1,
                                  [rows EXCEPT ![x].count = @ + 1])

RECURSIVE InsertByCount(_, _)
InsertByCount(sorted, row) ==
  IF sorted = <<>> THEN <<row>>
  ELSE IF Head(sorted).count >= row.count
    THEN <<Head(sorted)>> \o InsertByCount(Tail(sorted), row)
    ELSE <<row>> \o sorted

RECURSIVE SortByCountDesc(_, _, _)
SortByCountDesc(rows, k, sorted) ==
  IF k > Len(rows) THEN sorted
  ELSE SortByCountDesc(rows, k + 1, InsertByCount(sorted, rows[k]))

countByFolder(messages) ==
  SortByCountDesc(CountRowsFrom(messages, 1, <<>>), 1, <<>>)

\* appendFolderStatsToLog: nothing for an empty table, else a title line and
\* one line per row
appendFolderStatsToLog(log, title, stats) ==
  IF Len(stats) = 0 THEN log
  ELSE log \o <<title>> \o [k \in 1..Len(stats) |-> "row"]

(* --------------------- processAndArchiveEmails ------------------------ *)

NoResult ==
  [ kind |-> "none", success |-> FALSE, error |-> "", hasLog |-> FALSE,
    log |-> <<>>, foundCount |-> 0, duplicateCount |-> 0, totalScanned |-> 0,
    archivedCount |-> 0, duplicatesMovedCount |-> 0, errors |-> 0,
    toArchiveByFolder |-> <<>> ]

IdleRun ==
  [ pc |-> "idle", dryRun |-> FALSE, includeSubfolders |-> FALSE,
    messages |-> <<>>, toArchive |-> <<>>, toMove |-> <<>>, next |-> 1,
    duplicatesMovedCount |-> 0, duplicatesErrorCount |-> 0,
    messagesAfterDedup |-> <<>>, toArchiveRefresh |-> <<>>,
    archivedCount |-> 0, errorCount |-> 0, log |-> <<>>, faults |-> 0,
    result |-> NoResult ]

\* a remote call as recorded in the call trace of an invocation
Call(op, id, changeKey, dest, ok) ==
  [ op |-> op, id |-> id, changeKey |-> changeKey, dest |-> dest, ok |-> ok ]

\* the pcs at which an invocation is past the guard and has not returned
ActivePcs ==
  { "scanning", "findDuplicates", "dedupMoving", "rescanning", "getArchive",
    "archiveMoving", "persisting" }

Active(r) == run[r].pc \in ActivePcs

\* a guard that lets every invocation through
GuardNeverRejects == FALSE

\* line 1633: the single-flight test
GuardRejects == processingInProgress

\* a flag cleared by the return statements only, not on the catch path
FlagStuckAfterThrow(kind) == kind = "threw"

\* a flag that stays set when the dry-run return is taken
FlagStuckAfterDryRun(kind) == kind = "dryRun"

\* the finally clause: the value the flag has once an accepted run returned
FlagAfterExit(kind) == FALSE

\* a return statement inside the try: the locals at the return, the result
Returned(locals, result) ==
  [locals EXCEPT !.pc = "done", !.result = result]

\* processAndArchiveEmails up to its first await
Invoke(r) ==
  /\ run[r].pc = "idle"
  /\ \A q \in Runs : RunOrder(q) < RunOrder(r) => run[q].pc # "idle"
  /\ \A q \in Runs : run[q].pc # "done"
  /\ \E dryRun \in BOOLEAN, includeSubfolders \in BOOLEAN :
       IF GuardRejects
         THEN /\ run' = [run EXCEPT ![r] =
                   Returned(IdleRun,
                            [NoResult EXCEPT !.kind = "rejected",
                               !.error = "Processing already in progress"])]
              /\ UNCHANGED <<processingInProgress, started>>
         ELSE /\ ~dryRun => started < MaxLiveRuns
              /\ started' = started + (IF dryRun THEN 0 ELSE 1)
              /\ processingInProgress' = TRUE
              /\ run' = [run EXCEPT ![r] =
                   [IdleRun EXCEPT !.pc = "scanning", !.dryRun = dryRun,
                      !.includeSubfolders = includeSubfolders,
                      !.log = <<"start", "fetching">>]]
  /\ calls' = [calls EXCEPT ![r] = <<>>]
  /\ UNCHANGED <<storeVars, lastProcessingResult, aside>>

\* the locals of r after n more of its remote calls failed
Charged(r, n) == [run[r] EXCEPT !.faults = @ + n]

MayFail(r) == run[r].faults < MaxFaults

\* the outcomes one aggregation pass can have: which remote calls fail
ScanOutcomes(r) ==
  { o \in [listFails : (IF run[r].includeSubfolders THEN BOOLEAN ELSE {FALSE}),
           failing : SUBSET {"Inbox", "Sub", "Duplicates"}] :
      /\ o.failing \subseteq
           Range(ScanFolders(run[r].includeSubfolders, o.listFails))
      /\ run[r].faults + Cardinality(o.failing) + (IF o.listFails THEN 1 ELSE 0)
           <= MaxFaults }

ScanFaults(o) == Cardinality(o.failing) + (IF o.listFails THEN 1 ELSE 0)

\* a dry-run flag that is never honoured
DryRunIgnored(locals) == FALSE

\* the entry a fetch pass leaves in the call trace; ok: the pages of the Inbox
\* were fetched without an error (lines 1058-1069 catch a page error)
ScanCall(fetch) == Call("scan", 0, 0, "", ~fetch.folderStats[1].error)

\* line 1713: the dry-run return is taken
DryRunReturns(locals) == locals.dryRun

\* lines 1646-1771 after the initial fetch resolved, up to the next await
AfterInitialFetch(r, locals, initialFetch) ==
  LET messages == initialFetch.messages
      log1 == appendFolderStatsToLog(Append(locals.log, "found"),
                                     "scanBreakdown", initialFetch.folderStats)
      toArchive == ToArchive(messages)
      log2 == appendFolderStatsToLog(log1 \o <<"references", "repliedTo">>,
                                     "repliedByFolder", countByFolder(toArchive))
      duplicateCount == DuplicateCount(messages)
      log3 == Append(log2, "duplicatesFound")
      seen == [locals EXCEPT !.messages = messages, !.toArchive = toArchive]
  IN IF Len(messages) = 0
       THEN /\ run' = [run EXCEPT ![r] =
                 Returned([seen EXCEPT !.log = Append(log1, "noMessages")],
                   [NoResult EXCEPT !.kind = "empty", !.success = TRUE,
                      !.hasLog = TRUE, !.log = Append(log1, "noMessages")])]
            /\ processingInProgress' = FlagAfterExit("empty")
            /\ calls' = [calls EXCEPT ![r] = Append(@, ScanCall(initialFetch))]
     ELSE IF DryRunReturns(locals)
       THEN /\ run' = [run EXCEPT ![r] =
                 Returned([seen EXCEPT !.log = log3],
                   [NoResult EXCEPT !.kind = "dryRun", !.success = TRUE,
                      !.hasLog = TRUE, !.log = log3,
                      !.foundCount = Len(toArchive),
                      !.totalScanned = Len(messages),
                      !.duplicateCount = duplicateCount,
                      !.toArchiveByFolder = countByFolder(toArchive)])]
            /\ processingInProgress' = FlagAfterExit("dryRun")
            /\ calls' = [calls EXCEPT ![r] = Append(@, ScanCall(initialFetch))]
     ELSE IF duplicateCount > 0
       THEN /\ run' = [run EXCEPT ![r] =
                 [seen EXCEPT !.pc = "findDuplicates",
                              !.log = Append(log3, "checkingDuplicates")]]
            /\ UNCHANGED processingInProgress
            /\ calls' = [calls EXCEPT ![r] = Append(@, ScanCall(initialFetch))]
     ELSE /\ run' = [run EXCEPT ![r] =
               [seen EXCEPT !.pc = "rescanning", !.log = Append(log3, "refetching")]]
          /\ UNCHANGED processingInProgress
          /\ calls' = [calls EXCEPT ![r] = Append(@, ScanCall(initialFetch))]

\* the initial fetchMessagesAcrossInboxAndSubfolders resolves
ScanDone(r) ==
  /\ run[r].pc = "scanning"
  /\ \E o \in ScanOutcomes(r) :
       AfterInitialFetch(r, Charged(r, ScanFaults(o)),
         fetchMessagesAcrossInboxAndSubfolders(run[r].includeSubfolders,
                                               o.listFails, o.failing))
  /\ UNCHANGED <<storeVars, lastProcessingResult, started, aside>>

\* getDistinguishedFolderId: the id of a well-known folder
DistinguishedFolderId(distinguishedFolderId) ==
  IF distinguishedFolderId = "archive" THEN "Archive" ELSE "none"

\* lines 1613-1625: the remote calls getFolderId issues and the id it returns;
\* a failed call yields null on both paths
FolderLookup(folderName, isDistinguished, callFails) ==
  IF isDistinguished
    THEN [ ops |-> <<"getFolder">>,
           id  |-> IF callFails THEN "none"
                   ELSE DistinguishedFolderId(folderName) ]
    ELSE [ ops |-> <<"findFolder">>,
           id  |-> IF callFails THEN "none" ELSE FindFolderByName(folderName) ]

\* a lookup that creates the folder it did not find, as findOrCreateFolder does
getFolderIdOrCreate(folderName, isDistinguished, callFails) ==
  LET looked == FolderLookup(folderName, isDistinguished, callFails)
  IN IF looked.id # "none" THEN looked
     ELSE [ ops |-> Append(looked.ops, "createFolder"),
            id  |-> IF isDistinguished THEN "Archive" ELSE folderName ]

getFolderId(folderName, isDistinguished, callFails) ==
  FolderLookup(folderName, isDistinguished, callFails)

\* the calls of one lookup as entries of the run's call trace
LookupCalls(lookup, dest) ==
  [ k \in 1..Len(lookup.ops) |->
      Call(lookup.ops[k], 0, 0, dest, lookup.id # "none") ]

\* the effect of a successful MoveItem on the remote mailbox: the item is in
\* the destination folder and the store has issued it a new change key
MoveItem(i, dest) ==
  /\ loc' = [loc EXCEPT ![i] = dest]
  /\ ck' = [ck EXCEPT ![i] = @ + 1]
  /\ UNCHANGED <<hdr, dupPlace>>

\* a dedup pass entered whatever the lookup returned
DuplicatesFolderAssumed(duplicatesFolderId) == TRUE

\* line 1741: if (duplicatesFolderId)
DuplicatesFolderFound(duplicatesFolderId) == duplicatesFolderId # "none"

\* lines 1739-1771: getFolderId(token, 'Duplicates', false) resolves; a failed
\* FindFolder call yields null like an absent folder
FindDuplicatesDone(r) ==
  /\ run[r].pc = "findDuplicates"
  /\ \E callFails \in BOOLEAN :
       LET lookup == getFolderId("Duplicates", FALSE, callFails)
           duplicatesFolderId == lookup.id
       IN /\ callFails => MayFail(r)
          /\ calls' = [calls EXCEPT ![r] = @ \o LookupCalls(lookup, "Duplicates")]
          /\ IF DuplicatesFolderFound(duplicatesFolderId)
               THEN run' = [run EXCEPT ![r] =
                      [@ EXCEPT !.pc = "dedupMoving",
                                !.toMove = DuplicatesToMove(run[r].messages),
                                !.next = 1,
                                !.log = Append(@, "duplicatesFolderFound")]]
               ELSE run' = [run EXCEPT ![r] =
                      [@ EXCEPT !.pc = "rescanning",
                                !.faults = @ + (IF callFails THEN 1 ELSE 0),
                                !.log = @ \o <<"duplicatesSkipped", "refetching">>]]
  /\ UNCHANGED <<storeVars, processingInProgress, lastProcessingResult, started, aside>>

\* a batch that stops at its first failed move
BatchEndsOnFailure(ok, next, candidates) ==
  ~ok \/ next = Len(candidates)

\* lines 1751-1763 and 1835-1849: the for loop of a pass ends after its last
\* candidate, whether the move just attempted succeeded or threw
BatchEnds(ok, next, candidates) == next = Len(candidates)

\* lines 1751-1766: one moveToFolder of the dedup pass resolves or throws
DedupMoveDone(r) ==
  /\ run[r].pc = "dedupMoving"
  /\ LET msg == run[r].toMove[run[r].next]
     IN \E ok \in BOOLEAN :
         LET last == BatchEnds(ok, run[r].next, run[r].toMove) IN
          /\ ~ok => MayFail(r)
          /\ calls' = [calls EXCEPT ![r] =
                Append(@, Call("move", msg.id, msg.changeKey, "Duplicates", ok))]
          /\ IF ok THEN MoveItem(msg.id, "Duplicates") ELSE UNCHANGED storeVars
          /\ LET counted ==
                   IF ok
                     THEN [run[r] EXCEPT !.duplicatesMovedCount = @ + 1,
                                         !.log = Append(@, "movedDuplicate")]
                     ELSE [Charged(r, 1) EXCEPT !.duplicatesErrorCount = @ + 1,
                                                !.log = Append(@, "failedDuplicate")]
             IN run' = [run EXCEPT ![r] =
                  IF last
                    THEN [counted EXCEPT !.pc = "rescanning",
                            !.log = @ \o <<"duplicatesSummary", "refetching">>]
                    ELSE [counted EXCEPT !.next = @ + 1]]
  /\ UNCHANGED <<processingInProgress, lastProcessingResult, started, aside>>

\* the archive list of the initial scan, used again after the re-fetch
StaleArchiveCandidates(r, messagesAfterDedup) == run[r].toArchive

\* lines 1780-1795: the archive candidates, rebuilt from the re-fetched set
ArchiveCandidates(r, messagesAfterDedup) == ToArchive(messagesAfterDedup)

\* lines 1776-1827 after the second fetch resolved, up to the next await;
\* called: the second aggregation pass was issued
AfterRefetch(r, locals, afterDedupFetch, called) ==
  LET messagesAfterDedup == afterDedupFetch.messages
      log1 == appendFolderStatsToLog(Append(locals.log, "foundAfterDedup"),
                "scanBreakdownAfterDedup", afterDedupFetch.folderStats)
      toArchiveRefresh == ArchiveCandidates(r, messagesAfterDedup)
      log2 == appendFolderStatsToLog(Append(log1, "toArchive"),
                "toArchiveByFolder", countByFolder(toArchiveRefresh))
      seen == [locals EXCEPT !.messagesAfterDedup = messagesAfterDedup,
                             !.toArchiveRefresh = toArchiveRefresh,
                             !.log = log2]
  IN /\ calls' = [calls EXCEPT ![r] =
           IF called THEN Append(@, ScanCall(afterDedupFetch)) ELSE @]
     /\ IF Len(toArchiveRefresh) = 0
          THEN /\ run' = [run EXCEPT ![r] =
                    Returned(seen,
                      [NoResult EXCEPT !.kind = "nothingToArchive",
                         !.success = TRUE, !.hasLog = TRUE, !.log = log2,
                         !.duplicatesMovedCount = run[r].duplicatesMovedCount,
                         !.totalScanned = Len(run[r].messages),
                         !.errors = run[r].duplicatesErrorCount])]
               /\ processingInProgress' = FlagAfterExit("nothingToArchive")
          ELSE /\ run' = [run EXCEPT ![r] =
                    [seen EXCEPT !.pc = "getArchive",
                                 !.log = Append(log2, "gettingArchiveFolder")]]
               /\ UNCHANGED processingInProgress

\* line 1775: the second fetchMessagesAcrossInboxAndSubfolders call and what
\* the run does with its result
SecondFetch(r) ==
  \E o \in ScanOutcomes(r) :
    AfterRefetch(r, Charged(r, ScanFaults(o)),
      fetchMessagesAcrossInboxAndSubfolders(run[r].includeSubfolders,
                                            o.listFails, o.failing),
      TRUE)

\* the archive pass working on the initial scan, no second fetch issued
ReuseInitialScan(r) ==
  AfterRefetch(r, run[r],
               [messages |-> run[r].messages, folderStats |-> <<>>], FALSE)

\* a re-fetch made only when the dedup pass moved something
RefetchOnlyAfterMoves(r) ==
  /\ run[r].pc = "rescanning"
  /\ IF run[r].duplicatesMovedCount = 0
       THEN ReuseInitialScan(r) ELSE SecondFetch(r)
  /\ UNCHANGED <<storeVars, lastProcessingResult, started, aside>>

\* a re-fetch made only when the dedup pass had candidates
RefetchOnlyAfterDedupPass(r) ==
  /\ run[r].pc = "rescanning"
  /\ IF run[r].toMove = <<>> THEN ReuseInitialScan(r) ELSE SecondFetch(r)
  /\ UNCHANGED <<storeVars, lastProcessingResult, started, aside>>

\* a run that never fetches a second time
RefetchNever(r) ==
  /\ run[r].pc = "rescanning"
  /\ ReuseInitialScan(r)
  /\ UNCHANGED <<storeVars, lastProcessingResult, started, aside>>

\* lines 1773-1778: the unconditional re-fetch after the dedup pass resolves
RescanDone(r) ==
  /\ run[r].pc = "rescanning"
  /\ SecondFetch(r)
  /\ UNCHANGED <<storeVars, lastProcessingResult, started, aside>>

\* lines 1817-1827: getFolderId(token, 'archive', true) resolves; null (the
\* GetFolder call failed or named no folder) ends the run with success:false
GetArchiveDone(r) ==
  /\ run[r].pc = "getArchive"
  /\ \E callFails \in BOOLEAN :
      LET lookup == getFolderId("archive", TRUE, callFails)
          found == lookup.id # "none"
      IN
       /\ callFails => MayFail(r)
       /\ calls' = [calls EXCEPT ![r] = @ \o LookupCalls(lookup, "Archive")]
       /\ IF found
            THEN /\ run' = [run EXCEPT ![r] =
                      [@ EXCEPT !.pc = "archiveMoving", !.next = 1,
                                !.log = Append(@, "archiveFolderFound")]]
                 /\ UNCHANGED processingInProgress
            ELSE /\ run' = [run EXCEPT ![r] =
                      Returned([run[r] EXCEPT !.log = Append(@, "archiveFolderFailed")],
                        [NoResult EXCEPT !.kind = "archiveFolderFailed",
                           !.error = "Could not get archive folder",
                           !.hasLog = TRUE,
                           !.log = Append(run[r].log, "archiveFolderFailed")])]
                 /\ processingInProgress' = FlagAfterExit("archiveFolderFailed")
  /\ UNCHANGED <<storeVars, lastProcessingResult, started, aside>>

\* lines 1835-1856: one moveToFolder of the archive pass resolves or throws
ArchiveMoveDone(r) ==
  /\ run[r].pc = "archiveMoving"
  /\ LET msg == run[r].toArchiveRefresh[run[r].next]
     IN \E ok \in BOOLEAN :
         LET last == BatchEnds(ok, run[r].next, run[r].toArchiveRefresh) IN
          /\ ~ok => MayFail(r)
          /\ calls' = [calls EXCEPT ![r] =
                Append(@, Call("move", msg.id, msg.changeKey, "Archive", ok))]
          /\ IF ok THEN MoveItem(msg.id, "Archive") ELSE UNCHANGED storeVars
          /\ LET counted ==
                   IF ok
                     THEN [run[r] EXCEPT !.archivedCount = @ + 1,
                                         !.log = Append(@, "archived")]
                     ELSE [Charged(r, 1) EXCEPT !.errorCount = @ + 1,
                                                !.log = Append(@, "failedArchive")]
             IN run' = [run EXCEPT ![r] =
                  IF last
                    THEN [counted EXCEPT !.pc = "persisting",
                            !.log = Append(
                               IF counted.archivedCount > 0
                                 THEN @ \o <<"archivedByFolder", "row">> ELSE @,
                               "done")]
                    ELSE [counted EXCEPT !.next = @ + 1]]
  /\ UNCHANGED <<processingInProgress, lastProcessingResult, started, aside>>

\* a catch block that returns without the error message
CatchResultSilent(log, message) ==
  [NoResult EXCEPT !.kind = "threw", !.hasLog = TRUE, !.log = Append(log, "error")]

\* lines 1883-1885: the result the catch block returns
CatchResult(log, message) ==
  [NoResult EXCEPT !.kind = "threw", !.error = message, !.hasLog = TRUE,
                   !.log = Append(log, "error")]

\* lines 1859-1889: chrome.storage.local.set resolves and the run returns, or
\* it rejects and the catch block returns success:false
PersistDone(r) ==
  /\ run[r].pc = "persisting"
  /\ \E stored \in BOOLEAN :
       /\ ~stored => MayFail(r)
       /\ IF stored
            THEN /\ lastProcessingResult' =
                      [ totalMessages |-> Len(run[r].messages),
                        archived |-> run[r].archivedCount,
                        duplicatesMoved |-> run[r].duplicatesMovedCount,
                        errors |-> run[r].errorCount + run[r].duplicatesErrorCount,
                        log |-> run[r].log ]
                 /\ run' = [run EXCEPT ![r] =
                      Returned(run[r],
                        [NoResult EXCEPT !.kind = "completed", !.success = TRUE,
                           !.hasLog = TRUE, !.log = run[r].log,
                           !.archivedCount = run[r].archivedCount,
                           !.duplicatesMovedCount = run[r].duplicatesMovedCount,
                           !.totalScanned = Len(run[r].messages),
                           !.errors = run[r].errorCount + run[r].duplicatesErrorCount,
                           !.toArchiveByFolder = countByFolder(run[r].toArchiveRefresh)])]
                 /\ processingInProgress' = FlagAfterExit("completed")
            ELSE /\ UNCHANGED lastProcessingResult
                 /\ run' = [run EXCEPT ![r] =
                      Returned([run[r] EXCEPT !.log = Append(@, "error")],
                        CatchResult(run[r].log, "storage error"))]
                 /\ processingInProgress' = FlagAfterExit("threw")
  /\ calls' = calls
  /\ UNCHANGED <<storeVars, started, aside>>

\* the handler has sent the response; the invocation slot is free again
Return(r) ==
  /\ run[r].pc = "done"
  /\ run' = [run EXCEPT ![r] = IdleRun]
  /\ calls' = [calls EXCEPT ![r] = <<>>]
  /\ UNCHANGED <<storeVars, processingInProgress, lastProcessingResult, started, aside>>

\* the response of a dry run reaches the popup, which keeps it on display
DryReturn(r) ==
  /\ run[r].pc = "done"
  /\ previous' =
       IF run[r].result.kind \in {"dryRun", "empty"}
         THEN [ kind |-> run[r].result.kind,
                includeSubfolders |-> run[r].includeSubfolders,
                faults |-> run[r].faults,
                foundCount |-> run[r].result.foundCount,
                duplicateCount |-> run[r].result.duplicateCount,
                totalScanned |-> run[r].result.totalScanned,
                toArchiveByFolder |-> run[r].result.toArchiveByFolder ]
         ELSE previous
  /\ run' = [run EXCEPT ![r] = IdleRun]
  /\ calls' = [calls EXCEPT ![r] = <<>>]
  /\ UNCHANGED <<storeVars, processingInProgress, lastProcessingResult, started,
                 scan, merge, triageVars, tokenVars>>

(* ------------- the triage pipeline (askOllama messages) ---------------- *)

\* the askOllama messages whose handling may overlap
Triages == {"t1", "t2"}
\* the handler takes the free slots in this order
TriageOrder(t) == IF t = "t1" THEN 1 ELSE 2

\* two of the six triage folders
Labels == {"1-Urgent", "4-FYI"}

\* what classifySingleEmail can come back with: a valid folder, an error
\* (queryOllama failed, no JSON, JSON.parse threw), or an answer without folder
ClassifierOutcomes == Labels \cup {"failed", "noFolder"}

\* the maxIterations of the messages: a small number, a negative one, or zero
\* (a message without maxIterations takes the branch zero takes)
TriageIterations == {NItems - 1, 0 - 1, 0}

\* lines 378-380 and 2029-2031: the iterations a run is started with
Iterations(maxIterations) ==
  IF maxIterations > 0 THEN maxIterations ELSE DEFAULT_EMAIL_ITERATIONS

\* a loop over all the emails fetched
LimitAll(emails, maxIterations) == Len(emails)

\* line 285: the number of emails classifyAndMoveEmails processes
Limit(emails, maxIterations) ==
  Min2(Len(emails),
       IF maxIterations # 0 THEN maxIterations ELSE DEFAULT_EMAIL_ITERATIONS)

NoClassification == [ folder |-> "none", error |-> FALSE ]

NoTriageResult ==
  [ kind |-> "none", success |-> FALSE, processed |-> 0, moved |-> 0,
    aborted |-> FALSE, results |-> <<>> ]

NoProgress == [ current |-> 0, total |-> 0, moved |-> 0 ]

IdleTriage ==
  [ pc |-> "idle", maxIterations |-> 0, iterations |-> 0, emails |-> <<>>,
    limit |-> 0, i |-> 0,
    results |-> <<>>, movedCount |-> 0,
    folderCache |-> [l \in Labels |-> "unset"],
    classification |-> NoClassification, faults |-> 0,
    calls |-> <<>>, onProgress |-> <<>>, result |-> NoTriageResult ]

\* the message is being handled: its response has not been sent
InFlight(t) == triage[t].pc \notin {"idle", "done"}

\* a classifier whose failures come back filed under the default folder
ClassificationWithDefault(outcome) ==
  [ folder |-> IF outcome \in Labels THEN outcome
               ELSE IF outcome = "failed" THEN "4-FYI" ELSE "none",
    error  |-> outcome = "failed" ]

\* lines 221-268: what classifySingleEmail returns
Classification(outcome) ==
  [ folder |-> IF outcome \in Labels THEN outcome ELSE "none",
    error  |-> outcome = "failed" ]

\* lines 308-317: the result record of the item being processed
ItemResult(locals) ==
  [ id     |-> locals.emails[locals.i + 1].id,
    folder |-> locals.classification.folder,
    moved  |-> FALSE,
    error  |-> IF locals.classification.error THEN "classifier" ELSE "none" ]

\* a result pushed without a progress report
RecordedSilently(locals, result) ==
  [locals EXCEPT !.results = Append(@, result), !.i = @ + 1]

\* lines 322-326 and 355-360: the result is pushed, onProgress is invoked with
\* i + 1, and the loop moves on to the next index
Recorded(locals, result) ==
  LET results == Append(locals.results, result)
  IN [locals EXCEPT
        !.results = results,
        !.onProgress = Append(@, [ current    |-> locals.i + 1,
                                   total      |-> locals.limit,
                                   moved      |-> locals.movedCount,
                                   lastResult |-> result,
                                   resultsLen |-> Len(results) ]),
        !.i = @ + 1]

\* a loop that never looks at the cancellation flag
AbortIgnored(aborted) == FALSE

\* line 295: if (classificationAborted)
AbortSeen(aborted) == aborted

\* lines 296, 363 and 406-431: classifyAndMoveEmails returns and processAIPrompt
\* builds the response
Finished(locals, aborted) ==
  [locals EXCEPT
     !.pc = "done",
     !.result = [ kind      |-> IF aborted THEN "aborted" ELSE "complete",
                  success   |-> TRUE,
                  processed |-> IF aborted THEN locals.i ELSE locals.limit,
                  moved     |-> locals.movedCount,
                  aborted   |-> aborted,
                  results   |-> locals.results ]]

\* lines 293-302: the loop condition, the cancellation check, and the body
\* request of the next item
LoopHead(locals, aborted) ==
  IF locals.i >= locals.limit THEN Finished(locals, FALSE)
  ELSE IF AbortSeen(aborted) THEN Finished(locals, TRUE)
  ELSE [locals EXCEPT
          !.pc = "body",
          !.calls = Append(@, Call("getItem", locals.emails[locals.i + 1].id,
                                   0, "", TRUE))]

\* a cache that remembers only the resolutions that gave an id
CacheHasId(folderCache, folderName) ==
  folderCache[folderName] \notin {"unset", "none"}

\* line 333: folderCache.has(folderName)
CacheHas(folderCache, folderName) == folderCache[folderName] # "unset"

\* a move requested whatever the folder resolution gave
MoveDueUnresolved(moveFolderId, classification) == ~classification.error

\* line 345: if (moveFolderId && !classification.error)
MoveDue(moveFolderId, classification) ==
  moveFolderId # "none" /\ ~classification.error

\* lines 342-353 up to the next await: the move is requested, or the item is
\* recorded unmoved
AfterResolution(locals, aborted) ==
  LET moveFolderId == locals.folderCache[locals.classification.folder]
  IN IF MoveDue(moveFolderId, locals.classification)
       THEN [locals EXCEPT !.pc = "move"]
       ELSE LoopHead(Recorded(locals, ItemResult(locals)), aborted)

\* lines 335-342: findOrCreateFolder returned folderId, or threw ("none")
Resolved(locals, folderId, aborted) ==
  AfterResolution(
    [locals EXCEPT !.folderCache[locals.classification.folder] = folderId],
    aborted)

\* a protocol that creates the folder whatever the first find returned
CreateAlways(folderId) == TRUE

\* lines 1311-1318: the folder is created when the first find gave no id
CreateNeeded(folderId) == folderId = "none"

\* findFolderByName for a triage folder: its id, or null when the folder is
\* absent or the request failed
FindLabelFolder(folderName, callFails) ==
  IF ~callFails /\ folderName \in labelFolders THEN folderName ELSE "none"

\* the progress a poller sees after a step of a run
Shown(before, after) ==
  IF Len(after.onProgress) > Len(before.onProgress)
    THEN LET last == after.onProgress[Len(after.onProgress)]
         IN [ current |-> last.current, total |-> last.total,
              moved |-> last.moved ]
    ELSE classificationProgress

\* the step of a run from `before` to `after`
TriageStep(t, after) ==
  /\ triage' = [triage EXCEPT ![t] = after]
  /\ classificationProgress' = Shown(triage[t], after)

\* lines 2027-2066: the askOllama handler up to the first await of
\* processAIPrompt; an empty prompt and a missing token are answered at once
AskOllama(t) ==
  /\ triage[t].pc = "idle"
  /\ \A q \in Triages : TriageOrder(q) < TriageOrder(t) => triage[q].pc # "idle"
  /\ \A q \in Triages : triage[q].pc # "done"
  /\ \E request \in {"emptyPrompt", "noToken", "run"} :
       \E maxIterations \in TriageIterations :
         /\ request = "run" =>
              Cardinality({ q \in Triages : InFlight(q) }) < MaxLiveTriage
         /\ request # "run" => maxIterations = 0
         /\ triage' = [triage EXCEPT ![t] =
              IF request = "run"
                THEN [IdleTriage EXCEPT !.pc = "fetching",
                                        !.maxIterations = maxIterations,
                                        !.iterations = Iterations(maxIterations)]
                ELSE [IdleTriage EXCEPT !.pc = "done",
                        !.result = [NoTriageResult EXCEPT !.kind = request]]]
         /\ IF request = "emptyPrompt"
              THEN UNCHANGED <<classificationAborted, classificationProgress>>
              ELSE /\ classificationAborted' = FALSE
                   /\ classificationProgress' = NoProgress
  /\ UNCHANGED <<archiveVars, scan, merge, labelFolders, everResolved>>

\* lines 2021-2025: the abortClassification handler
AbortClassification ==
  /\ classificationAborted' = TRUE
  /\ UNCHANGED <<archiveVars, scan, merge, triage, classificationProgress,
                 labelFolders, everResolved>>

\* the outcomes of the fetch of a triage run: which remote calls fail
TriageScanOutcomes(t) ==
  { o \in [listFails : BOOLEAN, failing : SUBSET {"Inbox", "Sub"}] :
      triage[t].faults + ScanFaults(o) <= MaxFaults }

\* lines 386-404 and 280-302: the fetch resolves; with no email the run is
\* over, otherwise classifyAndMoveEmails starts its loop
TriageFetched(t) ==
  /\ triage[t].pc = "fetching"
  /\ \E o \in TriageScanOutcomes(t) :
       LET fetch == fetchMessagesAcrossInboxAndSubfolders(TRUE, o.listFails,
                                                          o.failing)
           emails == fetch.messages
           called == [triage[t] EXCEPT
                        !.calls = Append(@, ScanCall(fetch)),
                        !.faults = @ + ScanFaults(o)]
       IN TriageStep(t,
            IF Len(emails) = 0
              THEN [called EXCEPT !.pc = "done",
                      !.result = [NoTriageResult EXCEPT !.kind = "noEmails",
                                                        !.success = TRUE]]
              ELSE LoopHead([called EXCEPT
                               !.emails = emails,
                               !.limit = Limit(emails, called.iterations)],
                            classificationAborted))
  /\ UNCHANGED <<archiveVars, scan, merge, classificationAborted, labelFolders,
                 everResolved>>

\* lines 302-306: getItemBody resolved (it returns an empty body on failure)
\* and the classification is requested
BodyDone(t) ==
  /\ triage[t].pc = "body"
  /\ TriageStep(t, [triage[t] EXCEPT !.pc = "classify"])
  /\ UNCHANGED <<archiveVars, scan, merge, classificationAborted, labelFolders,
                 everResolved>>

\* lines 306-342: classifySingleEmail resolved
ClassifyDone(t) ==
  /\ triage[t].pc = "classify"
  /\ \E outcome \in ClassifierOutcomes :
       LET classification == Classification(outcome)
           email == triage[t].emails[triage[t].i + 1]
           locals == [triage[t] EXCEPT
                        !.classification = classification,
                        !.calls = Append(@, Call("classify", email.id, 0,
                                                 classification.folder,
                                                 ~classification.error))]
       IN TriageStep(t,
            IF classification.folder = "none"
              THEN LoopHead(Recorded(locals,
                              [ItemResult(locals) EXCEPT !.error = "noFolder"]),
                            classificationAborted)
            ELSE IF ~CacheHas(locals.folderCache, classification.folder)
              THEN [locals EXCEPT
                      !.pc = "find1",
                      !.calls = Append(@, Call("findOrCreateFolder", email.id, 0,
                                               classification.folder, TRUE))]
            ELSE AfterResolution(locals, classificationAborted))
  /\ UNCHANGED <<archiveVars, scan, merge, classificationAborted, labelFolders,
                 everResolved>>

\* lines 1309-1318: the first findFolderByName of findOrCreateFolder resolved
Find1Done(t) ==
  /\ triage[t].pc = "find1"
  /\ \E callFails \in BOOLEAN :
       LET folderName == triage[t].classification.folder
           folderId == FindLabelFolder(folderName, callFails)
           locals == [triage[t] EXCEPT
                        !.faults = @ + (IF callFails THEN 1 ELSE 0),
                        !.calls = Append(@, Call("findFolder", 0, 0, folderName,
                                                 folderId # "none"))]
       IN /\ callFails => triage[t].faults < MaxFaults
          /\ TriageStep(t,
               IF CreateNeeded(folderId)
                 THEN [locals EXCEPT !.pc = "create"]
                 ELSE Resolved(locals, folderId, classificationAborted))
  /\ UNCHANGED <<archiveVars, scan, merge, classificationAborted, labelFolders,
                 everResolved>>

\* lines 1318-1328: createFolder resolved; it gives no id when the request
\* failed or a folder of that name exists
CreateDone(t) ==
  /\ triage[t].pc = "create"
  /\ \E callFails \in BOOLEAN :
       LET folderName == triage[t].classification.folder
           created == ~callFails /\ folderName \notin labelFolders
           folderId == IF created THEN folderName ELSE "none"
           locals == [triage[t] EXCEPT
                        !.faults = @ + (IF callFails THEN 1 ELSE 0),
                        !.calls = Append(@, Call("createFolder", 0, 0, folderName,
                                                 created))]
       IN /\ callFails => triage[t].faults < MaxFaults
          /\ labelFolders' = IF created THEN labelFolders \cup {folderName}
                             ELSE labelFolders
          /\ TriageStep(t,
               IF folderId # "none"
                 THEN Resolved(locals, folderId, classificationAborted)
                 ELSE [locals EXCEPT !.pc = "find2"])
  /\ UNCHANGED <<archiveVars, scan, merge, classificationAborted, everResolved>>

\* lines 1328-1335: the second findFolderByName resolved; without an id
\* findOrCreateFolder throws and the cache gets null
Find2Done(t) ==
  /\ triage[t].pc = "find2"
  /\ \E callFails \in BOOLEAN :
       LET folderName == triage[t].classification.folder
           folderId == FindLabelFolder(folderName, callFails)
           locals == [triage[t] EXCEPT
                        !.faults = @ + (IF callFails THEN 1 ELSE 0),
                        !.calls = Append(@, Call("findFolder", 0, 0, folderName,
                                                 folderId # "none"))]
       IN /\ callFails => triage[t].faults < MaxFaults
          /\ TriageStep(t, Resolved(locals, folderId, classificationAborted))
  /\ UNCHANGED <<archiveVars, scan, merge, classificationAborted, labelFolders,
                 everResolved>>

\* lines 345-361: moveToFolder resolved or threw
TriageMoveDone(t) ==
  /\ triage[t].pc = "move"
  /\ \E ok \in BOOLEAN :
       LET email == triage[t].emails[triage[t].i + 1]
           folderName == triage[t].classification.folder
           locals == [triage[t] EXCEPT
                        !.faults = @ + (IF ok THEN 0 ELSE 1),
                        !.movedCount = @ + (IF ok THEN 1 ELSE 0),
                        !.calls = Append(@, Call("move", email.id, email.changeKey,
                                                 triage[t].folderCache[folderName],
                                                 ok))]
           result == IF ok THEN [ItemResult(locals) EXCEPT !.moved = TRUE]
                     ELSE [ItemResult(locals) EXCEPT !.error = "moveFailed"]
       IN /\ ~ok => triage[t].faults < MaxFaults
          /\ IF ok THEN MoveItem(email.id, folderName) ELSE UNCHANGED storeVars
          /\ TriageStep(t, LoopHead(Recorded(locals, result),
                                    classificationAborted))
  /\ UNCHANGED <<processingInProgress, run, calls, lastProcessingResult, started,
                 scan, merge, classificationAborted, labelFolders, everResolved,
                 previous, tokenVars>>

\* line 2063: the response is sent
TriageReturn(t) ==
  /\ triage[t].pc = "done"
  /\ triage' = [triage EXCEPT ![t] = IdleTriage]
  /\ everResolved' = everResolved \cup
       { l \in Labels : triage[t].folderCache[l] # "unset" }
  /\ UNCHANGED <<archiveVars, scan, merge, classificationAborted,
                 classificationProgress, labelFolders>>

(* --------------------------- specification ---------------------------- *)

\* no dry run has been answered yet
NoPrevious ==
  [ kind |-> "none", includeSubfolders |-> FALSE, faults |-> 0,
    foundCount |-> 0, duplicateCount |-> 0, totalScanned |-> 0,
    toArchiveByFolder |-> <<>> ]

\* the calls of flushPendingTokens that may overlap
Flushes == {"f1", "f2"}

FlushOrder(f) == IF f = "f1" THEN 1 ELSE 2

IdleFlush ==
  [ pc |-> "idle", tokensToStore |-> <<>>, next |-> 1, read |-> <<>>,
    tokens |-> <<>> ]

IdleHandler ==
  [ pc |-> "idle", msTokens |-> <<>>, tried |-> 0, response |-> "none" ]

(* ---------------- the token store and its debounced writer ------------- *)


\* lines 1909: the host of the request; two of the five hosts listened on
DomainOf(token) ==
  IF token % 2 = 0 THEN "outlook.cloud.microsoft" ELSE "outlook.office.com"

\* the list left by earlier sessions: n entries captured at time 0
Filler(n) ==
  [ k \in 1..n |->
      [ token |-> 100 + k, domain |-> DomainOf(100 + k), timestamp |-> 0,
        lastSeen |-> 0, count |-> 1 ] ]

\* lines 1906-1913: the entry the listener builds
TokenData(token, now) ==
  [ token |-> token, domain |-> DomainOf(token), timestamp |-> now ]

\* Map.prototype.set on the pendingTokens map, kept in insertion order
MapSet(pending, tokenData) ==
  IF \E k \in 1..Len(pending) : pending[k].token = tokenData.token
    THEN [ k \in 1..Len(pending) |->
             IF pending[k].token = tokenData.token THEN tokenData
             ELSE pending[k] ]
    ELSE Append(pending, tokenData)

\* line 554: findIndex, 0 for -1
ExistingIndex(tokens, token) ==
  IF \E k \in 1..Len(tokens) : tokens[k].token = token
    THEN CHOOSE k \in 1..Len(tokens) :
           /\ tokens[k].token = token
           /\ \A j \in 1..(k - 1) : tokens[j].token # token
    ELSE 0

\* a list that is never cut
Uncapped(tokens) == tokens

\* lines 569-571
Capped(tokens) ==
  IF Len(tokens) > MAX_TOKENS_STORED
    THEN SubSeq(tokens, 1, MAX_TOKENS_STORED)
    ELSE tokens

\* lines 552-571: the list storeToken writes, from the list it read
storeToken(tokens, tokenData, now) ==
  LET existingIndex == ExistingIndex(tokens, tokenData.token)
      merged ==
        IF existingIndex # 0
          THEN [tokens EXCEPT ![existingIndex].lastSeen = tokenData.timestamp,
                              ![existingIndex].count = @ + 1]
          ELSE << [ token |-> tokenData.token, domain |-> tokenData.domain,
                    timestamp |-> tokenData.timestamp,
                    lastSeen |-> tokenData.timestamp, count |-> 1 ] >>
               \o tokens
      alive == SelectSeq(merged,
                         LAMBDA t : (now - t.timestamp) < TOKEN_EXPIRY_MS)
  IN Capped(alive)

\* lines 1894-1918: a request with a valid bearer token is about to be sent
TokenCaptured ==
  /\ captures < MaxCaptures
  /\ captures' = captures + 1
  /\ \E token \in 1..NTokens :
       pendingTokens' = MapSet(pendingTokens, TokenData(token, clock))
  /\ storeTokensTimeout' = TRUE
  /\ UNCHANGED <<capturedTokens, flush, clock, handler>>
  /\ UNCHANGED <<orchestratorVars, scan, merge, triageVars, previous>>

\* lines 1932-1941 up to the first await: the debounce timer fires
TimerFires(f) ==
  /\ storeTokensTimeout
  /\ flush[f].pc = "idle"
  /\ \A g \in Flushes : FlushOrder(g) < FlushOrder(f) => flush[g].pc # "idle"
  /\ IF Len(pendingTokens) = 0
       THEN UNCHANGED <<flush, pendingTokens>>
       ELSE /\ flush' = [flush EXCEPT ![f] =
                 [IdleFlush EXCEPT !.pc = "get",
                                   !.tokensToStore = pendingTokens]]
            /\ pendingTokens' = <<>>
  /\ storeTokensTimeout' = FALSE
  /\ UNCHANGED <<capturedTokens, clock, handler, captures>>
  /\ UNCHANGED <<orchestratorVars, scan, merge, triageVars, previous>>

\* lines 551-573: chrome.storage.local.get resolves; the list is rebuilt and
\* handed to chrome.storage.local.set
GetResolves(f) ==
  /\ flush[f].pc = "get"
  /\ flush' = [flush EXCEPT ![f] =
       [@ EXCEPT !.pc = "set",
                 !.read = capturedTokens,
                 !.tokens = storeToken(capturedTokens,
                                       flush[f].tokensToStore[flush[f].next],
                                       clock)]]
  /\ UNCHANGED <<capturedTokens, pendingTokens, storeTokensTimeout, clock,
                 handler, captures>>
  /\ UNCHANGED <<orchestratorVars, scan, merge, triageVars, previous>>

\* lines 573 and 1939: chrome.storage.local.set resolves; the loop of
\* flushPendingTokens goes on to the next token
SetResolves(f) ==
  /\ flush[f].pc = "set"
  /\ capturedTokens' = flush[f].tokens
  /\ flush' = [flush EXCEPT ![f] =
       IF flush[f].next < Len(flush[f].tokensToStore)
         THEN [@ EXCEPT !.pc = "get", !.next = @ + 1]
         ELSE IdleFlush]
  /\ UNCHANGED <<pendingTokens, storeTokensTimeout, clock, handler, captures>>
  /\ UNCHANGED <<orchestratorVars, scan, merge, triageVars, previous>>

\* lines 24-30
MICROSOFT_TOKEN_DOMAINS ==
  { "graph.microsoft.com", "outlook.office.com", "outlook.office365.com",
    "outlook.cloud.microsoft", "substrate.office.com" }

\* lines 2081-2088: the stored tokens of Microsoft hosts, those of
\* outlook.cloud.microsoft moved to the front
MsTokens(tokens) ==
  LET kept == SelectSeq(tokens,
                        LAMBDA t : t.domain \in MICROSOFT_TOKEN_DOMAINS)
  IN SelectSeq(kept, LAMBDA t : t.domain = "outlook.cloud.microsoft")
       \o SelectSeq(kept, LAMBDA t : t.domain # "outlook.cloud.microsoft")

\* lines 2075-2099: the archiveRepliedEmails message arrives and the stored
\* list is read; the run with the first token starts, if there is a token
ArchiveRequested ==
  /\ handler.pc = "idle"
  /\ LET msTokens == MsTokens(capturedTokens)
     IN handler' =
          IF Len(msTokens) = 0
            THEN [IdleHandler EXCEPT !.pc = "done", !.response = "noToken"]
            ELSE [IdleHandler EXCEPT !.pc = "running", !.msTokens = msTokens,
                                     !.tried = 1]
  /\ UNCHANGED <<capturedTokens, pendingTokens, storeTokensTimeout, flush,
                 clock, captures>>
  /\ UNCHANGED <<orchestratorVars, scan, merge, triageVars, previous>>

\* lines 2098-2100: processAndArchiveEmails resolves with a result that
\* reports success or failure; the result is sent and the loop is left
RunAnswers ==
  /\ handler.pc = "running"
  /\ \E success \in BOOLEAN :
       handler' = [handler EXCEPT
                     !.pc = "done",
                     !.response = IF success THEN "success" ELSE "failure"]
  /\ UNCHANGED <<capturedTokens, pendingTokens, storeTokensTimeout, flush,
                 clock, captures>>
  /\ UNCHANGED <<orchestratorVars, scan, merge, triageVars, previous>>

\* the popup has the response
ResponseSent ==
  /\ handler.pc = "done"
  /\ handler' = IdleHandler
  /\ UNCHANGED <<capturedTokens, pendingTokens, storeTokensTimeout, flush,
                 clock, captures>>
  /\ UNCHANGED <<orchestratorVars, scan, merge, triageVars, previous>>

\* half a day passes while the listener and the writer are at rest
HalfDayPasses ==
  /\ clock < MaxTicks * (TOKEN_EXPIRY_MS \div 2)
  /\ ~storeTokensTimeout
  /\ \A f \in Flushes : flush[f].pc = "idle"
  /\ clock' = clock + (TOKEN_EXPIRY_MS \div 2)
  /\ UNCHANGED <<capturedTokens, pendingTokens, storeTokensTimeout, flush,
                 handler, captures>>
  /\ UNCHANGED <<orchestratorVars, scan, merge, triageVars, previous>>

NoStoredResult ==
  [ totalMessages |-> 0, archived |-> 0, duplicatesMoved |-> 0, errors |-> 0,
    log |-> <<>> ]

\* the state after the service worker started, for a mailbox whose items carry
\* the given headers and lie in the given folders
InitStored(headers, placements, dupPlaces, stored) ==
  /\ hdr \in [Items -> headers]
  /\ loc \in placements
  /\ ck = [i \in Items |-> 0]
  /\ dupPlace \in dupPlaces
  /\ processingInProgress = FALSE
  /\ run = [r \in Runs |-> IdleRun]
  /\ calls = [r \in Runs |-> <<>>]
  /\ lastProcessingResult = NoStoredResult
  /\ started = 0
  /\ scan = IdleScan
  /\ merge = IdleMerge
  /\ triage = [t \in Triages |-> IdleTriage]
  /\ classificationAborted = FALSE
  /\ classificationProgress = NoProgress
  /\ labelFolders = {}
  /\ everResolved = {}
  /\ previous = NoPrevious
  /\ capturedTokens \in stored
  /\ pendingTokens = <<>>
  /\ storeTokensTimeout = FALSE
  /\ flush = [f \in Flushes |-> IdleFlush]
  /\ clock = 0
  /\ handler = IdleHandler
  /\ captures = 0

InitWith(headers, placements, dupPlaces) ==
  InitStored(headers, placements, dupPlaces, {<<>>})

Init ==
  InitWith(ThreadHeaders, {[i \in Items |-> "Inbox"]}, {"absent", "root", "inbox"})

Next ==
  \E r \in Runs :
    \/ Invoke(r)
    \/ ScanDone(r)
    \/ FindDuplicatesDone(r)
    \/ DedupMoveDone(r)
    \/ RescanDone(r)
    \/ GetArchiveDone(r)
    \/ ArchiveMoveDone(r)
    \/ PersistDone(r)
    \/ Return(r)

Spec == Init /\ [][Next]_vars

(* ---- one scan followed page by page, message list reduced to sizes ----- *)

InitCaps ==
  InitWith({Header("<a>", <<>>, <<>>)}, {[i \in Items |-> "Inbox"]}, {"root"})

NextCaps ==
  \/ StartScan
  \/ PageArrives
  \/ PageFails
  \/ ScanReturns

SpecCaps == InitCaps /\ [][NextCaps]_vars

\* every remote call returns: a page request in flight is answered or throws
SpecCapsFair == SpecCaps /\ WF_vars(PageArrives \/ PageFails)

(* ---- the folder set of one scan ----------------------------------------- *)

NextFolders ==
  \/ ScanInvoked
  \/ SubfoldersListed
  \/ FolderSetUsed

SpecFolders == InitCaps /\ [][NextFolders]_vars

(* ---- one scan followed page by page, record by record ------------------ *)

NextMerge ==
  \/ PageMerged
  \/ MergeReturns

SpecMerge == InitCaps /\ [][NextMerge]_vars

(* ---- triage runs over a mailbox of plain messages ---------------------- *)

NextTriage ==
  \/ AbortClassification
  \/ \E t \in Triages :
       \/ AskOllama(t)
       \/ TriageFetched(t)
       \/ BodyDone(t)
       \/ ClassifyDone(t)
       \/ Find1Done(t)
       \/ CreateDone(t)
       \/ Find2Done(t)
       \/ TriageMoveDone(t)
       \/ TriageReturn(t)

SpecTriage == InitCaps /\ [][NextTriage]_vars

(* ---- scans alone: dry runs over mailboxes with richer headers ---------- *)

InitScan ==
  InitWith(ScanHeaders,
           { f \in [Items -> {"Inbox", "Sub"}] :
               \A i \in Items : i < NItems => f[i] = "Inbox" },
           {"root"})

\* the archiveRepliedEmails message with dryRun: true
DryInvoke(r) ==
  /\ Invoke(r)
  /\ run'[r].pc = "scanning" => run'[r].dryRun

NextScan ==
  \E r \in Runs :
    \/ DryInvoke(r)
    \/ ScanDone(r)
    \/ Return(r)

SpecScan == InitScan /\ [][NextScan]_vars

(* ---- the listener, the debounce timer and the flushes ------------------- *)

\* the list is empty at the start, or one below the cap, or at the cap
InitTokens ==
  InitStored({Header("<a>", <<>>, <<>>)}, {[i \in Items |-> "Inbox"]},
             {"root"},
             {<<>>, Filler(MAX_TOKENS_STORED - 1), Filler(MAX_TOKENS_STORED)})

NextTokens ==
  \/ TokenCaptured
  \/ \E f \in Flushes :
       \/ TimerFires(f)
       \/ GetResolves(f)
       \/ SetResolves(f)
  \/ HalfDayPasses

SpecTokens == InitTokens /\ [][NextTokens]_vars

(* ---- the archiveRepliedEmails handler over stored token lists ----------- *)

\* the stored lists of up to MaxStored tokens captured on three of the hosts
InitHandler ==
  InitStored({Header("<a>", <<>>, <<>>)}, {[i \in Items |-> "Inbox"]},
             {"root"},
             UNION { { [ k \in 1..n |->
                           [ token |-> k, domain |-> d[k], timestamp |-> 0,
                             lastSeen |-> 0, count |-> 1 ] ] :
                         d \in [1..n -> { "graph.microsoft.com",
                                          "outlook.office.com",
                                          "outlook.cloud.microsoft" }] } :
                     n \in 0..MaxStored })

NextHandler ==
  \/ ArchiveRequested
  \/ RunAnswers
  \/ ResponseSent

SpecHandler == InitHandler /\ [][NextHandler]_vars

(* ---- dry runs one after another, each response kept --------------------- *)

NextDry ==
  \E r \in Runs :
    \/ DryInvoke(r)
    \/ ScanDone(r)
    \/ DryReturn(r)

\* mailboxes of originals, replies and copies, the last item in either folder
SpecDry ==
  /\ InitWith({ Header(m, h, <<>>) : m \in MsgIds, h \in {<<>>, <<"<a>">>} }
                \cup {Header("", <<"<b>">>, <<>>)},
              { f \in [Items -> {"Inbox", "Sub"}] :
                  \A i \in Items : i < NItems => f[i] = "Inbox" },
              {"root"})
  /\ [][NextDry]_vars

(* ============================== claims ================================ *)

Rejected(r) == run[r].pc = "done" /\ run[r].result.kind = "rejected"

CallsOf(r, op) == { k \in 1..Len(calls[r]) : calls[r][k].op = op }

MovesTo(r, dest) ==
  { k \in CallsOf(r, "move") : calls[r][k].dest = dest }

C1_StateInv ==
  /\ Cardinality({ r \in Runs : Active(r) }) <= 1
  /\ (\E r \in Runs : Active(r)) => processingInProgress
  /\ \A r \in Runs :
       Rejected(r) => /\ ~run[r].result.success
                      /\ run[r].result.error = "Processing already in progress"
                      /\ calls[r] = <<>>

C1_Step ==
  \A r \in Runs :
    ( /\ run[r].pc = "idle"
      /\ run'[r].pc # "idle"
      /\ \E q \in Runs \ {r} : Active(q) )
    => /\ run'[r].pc = "done"
       /\ ~run'[r].result.success
       /\ run'[r].result.error = "Processing already in progress"
       /\ calls'[r] = <<>>
       /\ processingInProgress'
       /\ UNCHANGED <<storeVars, lastProcessingResult>>
       /\ \A q \in Runs \ {r} : run'[q] = run[q] /\ calls'[q] = calls[q]

(* C1: at most one archive run is past the single-flight guard at any time; *)
(* an invocation made while another run is in progress returns at once     *)
(* with success:false and 'Processing already in progress', issues no      *)
(* remote call, and leaves the flag of the running invocation set.         *)
C1_SingleFlight == []C1_StateInv /\ [][C1_Step]_vars

C1_Witness ==
  \E r, q \in Runs : Rejected(r) /\ Active(q) /\ run[q].pc = "dedupMoving"

C2_StateInv ==
  (\A r \in Runs : ~Active(r)) => ~processingInProgress

C2_Step ==
  \A r \in Runs :
    /\ (Active(r) /\ run'[r].pc = "done") => ~processingInProgress'
    /\ ( /\ run[r].pc = "idle"
         /\ run'[r].pc # "idle"
         /\ \A q \in Runs : ~Active(q) )
       => run'[r].pc = "scanning" /\ processingInProgress'

(* C2: every run that passed the guard clears the in-progress flag when it  *)
(* returns, whatever the exit path; so whenever no run is in flight the     *)
(* flag is false and a new invocation is accepted.                          *)
C2_FlagCleared == []C2_StateInv /\ [][C2_Step]_vars

C2_Witness ==
  \E r \in Runs :
    /\ run[r].pc = "done"
    /\ run[r].result.kind = "threw"
    /\ ~processingInProgress

IsSupersededIn(m, messages) ==
  /\ m.messageId # ""
  /\ \E j \in 1..Len(messages) :
       m.messageId \in Range(messages[j].inReplyTo)
                         \cup Range(messages[j].references)

WithMessageId(messages) ==
  { k \in 1..Len(messages) : messages[k].messageId # "" }

C3_StateInv ==
  \A r \in Runs :
    (run[r].pc # "idle" /\ run[r].dryRun) =>
      /\ run[r].pc \in {"scanning", "done"}
      /\ \A k \in 1..Len(calls[r]) : calls[r][k].op = "scan"
      /\ Len(calls[r]) = (IF run[r].pc = "done" THEN 1 ELSE 0)
      /\ run[r].pc = "done" =>
           /\ run[r].result.success
           /\ run[r].result.kind \in {"dryRun", "empty"}
           /\ run[r].result.kind = "empty" <=> run[r].messages = <<>>
           /\ run[r].result.kind = "dryRun" =>
                /\ run[r].result.totalScanned = Len(run[r].messages)
                /\ run[r].result.foundCount =
                     Cardinality({ k \in 1..Len(run[r].messages) :
                        IsSupersededIn(run[r].messages[k], run[r].messages) })
                /\ run[r].result.duplicateCount =
                     Cardinality(WithMessageId(run[r].messages))
                     - Cardinality({ run[r].messages[k].messageId :
                                       k \in WithMessageId(run[r].messages) })

C3_Step ==
  (\E r \in Runs : Active(r) /\ run[r].dryRun)
    => UNCHANGED <<storeVars, lastProcessingResult>>

(* C3: a dry run issues no move and no folder creation, makes exactly one   *)
(* aggregation pass, resolves neither the Duplicates nor the Archive        *)
(* folder, leaves the mailbox and the stored result as they were, and       *)
(* returns the counts computed from that one pass.                          *)
C3_DryRunReadOnly == []C3_StateInv /\ [][C3_Step]_vars

C3_Witness ==
  \E r \in Runs :
    /\ run[r].pc = "done"
    /\ run[r].dryRun
    /\ run[r].result.kind = "dryRun"
    /\ run[r].result.foundCount > 0
    /\ run[r].result.duplicateCount > 0
    /\ dupPlace # "absent"

PastRefetch(r) ==
  \/ run[r].pc \in {"getArchive", "archiveMoving", "persisting"}
  \/ /\ run[r].pc = "done"
     /\ run[r].result.kind
          \in {"nothingToArchive", "archiveFolderFailed", "completed", "threw"}

SecondScanBefore(r, k) ==
  \E s1, s2 \in CallsOf(r, "scan") : s1 < s2 /\ s2 < k

(* C4: every live run fetches the mailbox a second time before the archive  *)
(* set is computed and before the archive folder is resolved or any archive *)
(* move is issued; the second fetch happens whether or not duplicates were  *)
(* found, the Duplicates folder exists, or any duplicate move succeeded.    *)
C4_RefetchAlways ==
  \A r \in Runs :
    (run[r].pc # "idle" /\ ~run[r].dryRun) =>
      /\ PastRefetch(r) => Cardinality(CallsOf(r, "scan")) = 2
      /\ \A k \in CallsOf(r, "getFolder") \cup MovesTo(r, "Archive") :
           SecondScanBefore(r, k)

C4_Witness ==
  \E r \in Runs :
    /\ run[r].pc = "archiveMoving"
    /\ run[r].toMove # <<>>
    /\ run[r].duplicatesMovedCount = 0
    /\ Cardinality(CallsOf(r, "scan")) = 2

Phase(r) ==
  CASE run[r].pc = "idle" -> "Idle"
    [] run[r].pc = "scanning" -> "Scanning"
    [] run[r].pc \in {"findDuplicates", "dedupMoving"} -> "DedupMoving"
    [] run[r].pc = "rescanning" -> "Rescanning"
    [] run[r].pc \in {"getArchive", "archiveMoving", "persisting"}
         -> "ArchiveMoving"
    [] run[r].pc = "done" /\ run[r].result.kind = "dryRun" -> "DryRunComplete"
    [] run[r].pc = "done" /\ run[r].result.success
                          /\ run[r].result.kind # "dryRun" -> "Done"
    [] OTHER -> "Failed"

PhaseRank(ph) ==
  CASE ph = "Idle" -> 0
    [] ph = "Scanning" -> 1
    [] ph = "DedupMoving" -> 2
    [] ph = "Rescanning" -> 3
    [] ph = "ArchiveMoving" -> 4
    [] OTHER -> 5

PhaseEdge(from, to) ==
  \/ PhaseRank(from) = 5 /\ to = "Idle"
  \/ /\ PhaseRank(from) < PhaseRank(to)
     /\ to = "DryRunComplete" => from = "Scanning"
     /\ to = "Scanning" => from = "Idle"

CallRank(r, k) ==
  IF calls[r][k].op = "scan"
    THEN (IF \E s \in CallsOf(r, "scan") : s < k THEN 3 ELSE 1)
  ELSE IF calls[r][k].op = "findFolder" \/ calls[r][k].dest = "Duplicates"
    THEN 2
  ELSE 4

C5_StateInv ==
  \A r \in Runs :
    /\ Cardinality(CallsOf(r, "scan")) <= 2
    /\ \A j, k \in 1..Len(calls[r]) : j < k => CallRank(r, j) <= CallRank(r, k)
    /\ \A k \in 1..Len(calls[r]) :
         /\ CallRank(r, k) >= 2 => 1 \in CallsOf(r, "scan")
         /\ CallRank(r, k) = 4 => SecondScanBefore(r, k)
    /\ Len(calls[r]) > 0 => CallRank(r, Len(calls[r])) <= PhaseRank(Phase(r))

C5_Step ==
  \A r \in Runs :
    Phase(r)' # Phase(r) => PhaseEdge(Phase(r), Phase(r)')

(* C5: within a run the phases occur only in the order Idle, Scanning, then *)
(* either DryRunComplete or DedupMoving, Rescanning, ArchiveMoving, Done,   *)
(* with Failed reachable on the way: a phase may be passed over but none is *)
(* entered twice or out of order; no Duplicates move precedes the end of    *)
(* the initial scan, every Duplicates move precedes the re-scan, and every  *)
(* archive-pass call follows the re-scan.                                   *)
C5_PhaseOrder == []C5_StateInv /\ [][C5_Step]_vars

C5_Witness ==
  \E r \in Runs :
    /\ run[r].pc = "done"
    /\ run[r].result.kind = "completed"
    /\ \E d \in MovesTo(r, "Duplicates") : calls[r][d].ok
    /\ \E a \in MovesTo(r, "Archive") : calls[r][a].ok

(* C6: a record that a run has successfully moved to the Duplicates folder  *)
(* is not moved to the Archive folder later in the same run.                *)
C6_DuplicateNotArchived ==
  \A r \in Runs :
    \A d \in MovesTo(r, "Duplicates") :
      calls[r][d].ok =>
        \A a \in MovesTo(r, "Archive") : calls[r][a].id # calls[r][d].id

ArchiveSetBuilt(r) ==
  run[r].pc \in {"getArchive", "archiveMoving", "persisting"}

(* C7: the archive set is the classification of the re-fetched message set  *)
(* and of nothing else, and every archive move is issued with the id and    *)
(* the change key of a record the second pass returned.                     *)
C7_ArchiveFromRefetch ==
  \A r \in Runs :
    ArchiveSetBuilt(r) =>
      /\ Range(run[r].toArchiveRefresh) =
           { m \in Range(run[r].messagesAfterDedup) :
               IsSupersededIn(m, run[r].messagesAfterDedup) }
      /\ \A a \in MovesTo(r, "Archive") :
           \E m \in Range(run[r].messagesAfterDedup) :
             /\ m.id = calls[r][a].id
             /\ m.changeKey = calls[r][a].changeKey
      /\ Cardinality(MovesTo(r, "Archive")) <= Len(run[r].toArchiveRefresh)

C7_Witness ==
  \E r \in Runs :
    /\ run[r].pc = "persisting"
    /\ Range(run[r].toArchiveRefresh) # Range(run[r].toArchive)
    /\ \E a \in MovesTo(r, "Archive") :
         /\ calls[r][a].ok
         /\ calls[r][a].changeKey > 0

ScanBetween(r, j, k) ==
  \E s \in CallsOf(r, "scan") : j < s /\ s < k

ReferenceSet(messages) ==
  UNION { Range(m.inReplyTo) \cup Range(m.references) : m \in Range(messages) }

Positions(messages, selected) ==
  { k \in 1..Len(messages) : messages[k] \in Range(selected) }

(* C9: in every scanned message set a record is classified superseded if    *)
(* and only if its messageId is non-empty and belongs to the union of all   *)
(* records' inReplyTo and references lists; the classified records keep     *)
(* the scan order.                                                          *)
C9_SupersededIffReferenced ==
  \A r \in Runs :
    LET messages == run[r].messages
        toArchive == run[r].toArchive
    IN /\ \A k \in 1..Len(messages) :
            messages[k] \in Range(toArchive)
              <=> ( /\ messages[k].messageId # ""
                    /\ messages[k].messageId \in ReferenceSet(messages) )
       /\ Range(toArchive) \subseteq Range(messages)
       /\ Len(toArchive) = Cardinality(Positions(messages, toArchive))
       /\ \A j, k \in 1..Len(toArchive) :
            j < k => \E a, b \in 1..Len(messages) :
                       a < b /\ messages[a] = toArchive[j]
                             /\ messages[b] = toArchive[k]
       /\ (run[r].pc = "done" /\ run[r].result.kind = "dryRun")
            => run[r].result.foundCount = Len(toArchive)

\* Scenario A: M1 with Message-ID <a>, M2 with In-Reply-To <a>
C9_Witness ==
  \E r \in Runs :
    /\ run[r].pc = "done"
    /\ run[r].result.kind = "dryRun"
    /\ \E m1, m2 \in Range(run[r].messages) :
         /\ m1.messageId = "<a>"
         /\ m2.messageId = "<b>"
         /\ m2.inReplyTo = <<"<a>">>
         /\ m2.references = <<>>
         /\ m1 \in Range(run[r].toArchive)
         /\ m2 \notin Range(run[r].toArchive)

ReferencedByIdentified(m, messages) ==
  \E x \in Range(messages) :
    /\ x.messageId # ""
    /\ m.messageId \in Range(x.inReplyTo) \cup Range(x.references)

EmptyIdRule(messages, selected) ==
  \A e \in Range(messages) :
    e.messageId = "" =>
      /\ e \notin Range(selected)
      /\ \A m \in Range(messages) :
           ( /\ m.messageId # ""
             /\ m.messageId \in Range(e.inReplyTo) \cup Range(e.references) )
           => m \in Range(selected)

ReferencedByAnother(m, messages) ==
  \E x \in Range(messages) :
    /\ x.id # m.id
    /\ m.messageId \in Range(x.inReplyTo) \cup Range(x.references)

(* C11: a record is classified superseded only when its Message-ID appears  *)
(* in the In-Reply-To or References of another scanned record, a record     *)
(* distinct from itself.                                                    *)
C11_SupersededByAnother ==
  \A r \in Runs :
    \A m \in Range(run[r].toArchive) : ReferencedByAnother(m, run[r].messages)

\* the item's Message-ID is named by no item of the mailbox
HeadInMailbox(i) ==
  \A j \in Items :
    hdr[i].messageId \notin Range(hdr[j].inReplyTo) \cup Range(hdr[j].references)

(* C12: a head message, one whose Message-ID is referenced by no record of  *)
(* the scanned set, is never moved to the Archive folder by a live run:     *)
(* every archive move concerns a record whose non-empty Message-ID is in    *)
(* the reference set of the set the archive pass scanned.                   *)
C12_HeadNeverArchived ==
  /\ \A r \in Runs :
       \A a \in MovesTo(r, "Archive") :
         /\ hdr[calls[r][a].id].messageId # ""
         /\ hdr[calls[r][a].id].messageId
               \in ReferenceSet(run[r].messagesAfterDedup)
  /\ \A i \in Items : HeadInMailbox(i) => loc[i] # "Archive"

C12_Witness ==
  \E r \in Runs :
    /\ run[r].pc = "done"
    /\ run[r].result.kind = "completed"
    /\ run[r].result.archivedCount > 0
    /\ \E m \in Range(run[r].messagesAfterDedup) :
         /\ m.messageId # ""
         /\ m.messageId \notin ReferenceSet(run[r].messagesAfterDedup)
         /\ loc[m.id] = "Inbox"

\* positions of the records that share a non-empty messageId with an earlier
\* record of the scan: the non-keepers of the duplicate groups
NonKeepers(messages) ==
  { k \in 1..Len(messages) :
      /\ messages[k].messageId # ""
      /\ \E j \in 1..(k - 1) : messages[j].messageId = messages[k].messageId }

DedupPassOver(r) ==
  /\ run[r].toMove # <<>>
  /\ run[r].pc \notin {"idle", "scanning", "findDuplicates", "dedupMoving"}

\* the Duplicates moves of a run, in the order they were issued
DuplicateMoveIds(r) ==
  LET moves == SelectSeq(calls[r],
                 LAMBDA c : c.op = "move" /\ c.dest = "Duplicates")
  IN [ k \in 1..Len(moves) |-> moves[k].id ]

(* C13: duplicate groups hold only records with a non-empty messageId; the  *)
(* keeper of a group is its first record in scan order, and the dedup pass  *)
(* attempts to move exactly the other records of each group, once each and  *)
(* never a keeper; duplicateCount is the number of non-keeper records.      *)
C13_KeeperFirst ==
  \A r \in Runs :
    LET messages == run[r].messages
        toMove == run[r].toMove
    IN /\ run[r].pc = "findDuplicates" => NonKeepers(messages) # {}
       /\ toMove # <<>> =>
            /\ Len(toMove) = Cardinality(NonKeepers(messages))
            /\ Range(toMove) = { messages[k] : k \in NonKeepers(messages) }
       /\ \A k \in 1..Len(DuplicateMoveIds(r)) :
            /\ k <= Len(toMove)
            /\ DuplicateMoveIds(r)[k] = toMove[k].id
       /\ DedupPassOver(r) => Len(DuplicateMoveIds(r)) = Len(toMove)
       /\ (run[r].pc = "done" /\ run[r].result.kind = "dryRun") =>
            run[r].result.duplicateCount = Cardinality(NonKeepers(messages))
       /\ ( /\ run[r].pc \notin {"idle", "scanning", "findDuplicates", "done"}
            /\ ~run[r].dryRun
            /\ CallsOf(r, "findFolder") = {} )
          => NonKeepers(messages) = {}

\* Scenario B: three records share one Message-ID, scanned as M1, M2, M3
C13_Witness ==
  \E r \in Runs :
    /\ DedupPassOver(r)
    /\ Len(run[r].messages) = 3
    /\ \A k \in 1..3 : run[r].messages[k].messageId = "<a>"
    /\ run[r].toMove = <<run[r].messages[2], run[r].messages[3]>>
    /\ DuplicateMoveIds(r) = <<run[r].messages[2].id, run[r].messages[3].id>>
    /\ loc[run[r].messages[1].id] = "Inbox"
    /\ loc[run[r].messages[2].id] = "Duplicates"
    /\ loc[run[r].messages[3].id] = "Duplicates"

(* C14: no archive run issues a createFolder call: the Duplicates folder is *)
(* only looked up by display name and the Archive folder only through the   *)
(* distinguished-folder lookup, whether the lookups find the folder or not; *)
(* nothing is put into a Duplicates folder the mailbox does not have.       *)
C14_NoFolderCreated ==
  /\ \A r \in Runs :
       /\ CallsOf(r, "createFolder") = {}
       /\ \A k \in 1..Len(calls[r]) :
            /\ calls[r][k].op \in {"scan", "findFolder", "getFolder", "move"}
            /\ calls[r][k].op = "findFolder" => calls[r][k].dest = "Duplicates"
            /\ calls[r][k].op = "getFolder" => calls[r][k].dest = "Archive"
            /\ calls[r][k].dest = "Duplicates" => calls[r][k].op # "getFolder"
            /\ calls[r][k].dest = "Archive" => calls[r][k].op # "findFolder"
       /\ Cardinality(CallsOf(r, "findFolder")) <= 1
       /\ Cardinality(CallsOf(r, "getFolder")) <= 1
  /\ dupPlace = "absent" => \A i \in Items : loc[i] # "Duplicates"

C14_Witness ==
  \E r \in Runs :
    /\ run[r].pc = "done"
    /\ run[r].result.kind = "archiveFolderFailed"
    /\ dupPlace = "absent"
    /\ \E f \in CallsOf(r, "findFolder") : ~calls[r][f].ok
    /\ \E g \in CallsOf(r, "getFolder") : ~calls[r][g].ok

\* the Duplicates lookup of the run came back without a folder
DuplicatesLookupEmpty(r) ==
  \E f \in CallsOf(r, "findFolder") : ~calls[r][f].ok

LogHas(log, entry) == \E k \in 1..Len(log) : log[k] = entry

(* C15: when duplicates were found but the Duplicates folder is absent, a   *)
(* live run skips duplicate handling without failing: it attempts no move   *)
(* to Duplicates, logs that the folder was skipped, goes on to the re-fetch *)
(* and the archive pass, and ends with duplicatesMovedCount = 0 and no      *)
(* error counted for duplicates.                                            *)
C15_MissingDuplicatesSkipped ==
  \A r \in Runs :
    DuplicatesLookupEmpty(r) =>
      /\ NonKeepers(run[r].messages) # {}
      /\ MovesTo(r, "Duplicates") = {}
      /\ LogHas(run[r].log, "duplicatesSkipped")
      /\ ~LogHas(run[r].log, "duplicatesFolderFound")
      /\ run[r].pc \in {"rescanning", "getArchive", "archiveMoving",
                        "persisting", "done"}
      /\ run[r].duplicatesMovedCount = 0
      /\ run[r].duplicatesErrorCount = 0
      /\ run[r].pc \in {"getArchive", "archiveMoving", "persisting", "done"}
           => Cardinality(CallsOf(r, "scan")) = 2
      /\ run[r].pc = "done" =>
           /\ run[r].result.kind
                \in {"nothingToArchive", "archiveFolderFailed", "completed", "threw"}
           /\ run[r].result.duplicatesMovedCount = 0
           /\ run[r].result.error \in {"", "Could not get archive folder",
                                      "storage error"}
           /\ run[r].result.success =>
                /\ run[r].result.errors = run[r].errorCount
                /\ LogHas(run[r].result.log, "duplicatesSkipped")

\* Scenario C on a mailbox without a Duplicates folder
C15_Witness ==
  \E r \in Runs :
    /\ dupPlace = "absent"
    /\ DuplicatesLookupEmpty(r)
    /\ run[r].pc = "done"
    /\ run[r].result.kind = "completed"
    /\ run[r].result.archivedCount > 0
    /\ run[r].result.errors = 0

ArchiveFolderFailed(r) ==
  run[r].pc = "done" /\ run[r].result.kind = "archiveFolderFailed"

(* C16: a live run in which resolving the Archive folder fails returns      *)
(* success:false with a descriptive error and a non-empty log, and no item  *)
(* has been moved during that run.                                          *)
C16_ArchiveFailureMovesNothing ==
  \A r \in Runs :
    ArchiveFolderFailed(r) =>
      /\ ~run[r].result.success
      /\ run[r].result.error # ""
      /\ run[r].result.hasLog
      /\ run[r].result.log # <<>>
      /\ \A k \in CallsOf(r, "move") : ~calls[r][k].ok

\* the ids a pass tried to move, in the order of the attempts
MoveAttempts(r, dest) ==
  LET moves == SelectSeq(calls[r], LAMBDA c : c.op = "move" /\ c.dest = dest)
  IN [ k \in 1..Len(moves) |-> moves[k].id ]

Outcomes(r, dest, ok) ==
  Cardinality({ k \in MovesTo(r, dest) : calls[r][k].ok = ok })

CandidateIds(candidates) == [ k \in 1..Len(candidates) |-> candidates[k].id ]

ArchivePassOver(r) ==
  \/ run[r].pc = "persisting"
  \/ run[r].pc = "done" /\ run[r].result.kind \in {"completed", "threw"}

(* C17: move failures are isolated per item and never retried: in the dedup *)
(* pass and in the archive pass every candidate gets exactly one move       *)
(* attempt, in candidate order, whatever happened to the attempts before    *)
(* it; when a pass is over moved + failed equals its number of candidates,  *)
(* and the errors a run returns are the failures of both passes together.   *)
C17_FailuresIsolated ==
  \A r \in Runs :
    /\ run[r].duplicatesMovedCount = Outcomes(r, "Duplicates", TRUE)
    /\ run[r].duplicatesErrorCount = Outcomes(r, "Duplicates", FALSE)
    /\ run[r].archivedCount = Outcomes(r, "Archive", TRUE)
    /\ run[r].errorCount = Outcomes(r, "Archive", FALSE)
    /\ run[r].pc = "dedupMoving" =>
         MoveAttempts(r, "Duplicates")
           = SubSeq(CandidateIds(run[r].toMove), 1, run[r].next - 1)
    /\ DedupPassOver(r) =>
         /\ MoveAttempts(r, "Duplicates") = CandidateIds(run[r].toMove)
         /\ run[r].duplicatesMovedCount + run[r].duplicatesErrorCount
              = Len(run[r].toMove)
    /\ run[r].pc = "archiveMoving" =>
         MoveAttempts(r, "Archive")
           = SubSeq(CandidateIds(run[r].toArchiveRefresh), 1, run[r].next - 1)
    /\ ArchivePassOver(r) =>
         /\ MoveAttempts(r, "Archive") = CandidateIds(run[r].toArchiveRefresh)
         /\ run[r].archivedCount + run[r].errorCount
              = Len(run[r].toArchiveRefresh)
    /\ (run[r].pc = "done" /\ run[r].result.success /\ ~run[r].dryRun) =>
         /\ run[r].result.errors
              = Outcomes(r, "Duplicates", FALSE) + Outcomes(r, "Archive", FALSE)
         /\ run[r].result.duplicatesMovedCount = Outcomes(r, "Duplicates", TRUE)
         /\ run[r].result.archivedCount = Outcomes(r, "Archive", TRUE)

C17_Witness ==
  \E r \in Runs :
    /\ run[r].pc = "done"
    /\ run[r].result.success
    /\ run[r].result.errors = 1
    /\ \E j, k \in CallsOf(r, "move") :
         /\ j < k
         /\ calls[r][j].dest = calls[r][k].dest
         /\ ~calls[r][j].ok
         /\ calls[r][k].ok

LiveSuccess(r) ==
  run[r].pc = "done" /\ ~run[r].dryRun /\ run[r].result.success

(* C18: every live run that returns success:true has stored a summary as    *)
(* lastProcessingResult before returning, with the counts and the log it    *)
(* returns to the caller, also when the archive set after the re-fetch is   *)
(* empty.                                                                   *)
C18_SuccessPersisted ==
  \A r \in Runs :
    LiveSuccess(r) =>
      /\ lastProcessingResult.log = run[r].result.log
      /\ lastProcessingResult.totalMessages = run[r].result.totalScanned
      /\ lastProcessingResult.archived = run[r].result.archivedCount
      /\ lastProcessingResult.duplicatesMoved = run[r].result.duplicatesMovedCount
      /\ lastProcessingResult.errors = run[r].result.errors

\* success is a boolean and a failure carries an error message
ResultShape(result) ==
  /\ result.success \in BOOLEAN
  /\ ~result.success => result.error # ""

(* C19 as stated: every result the archive orchestrator returns carries a   *)
(* boolean success, an error message whenever success is false, and a       *)
(* non-empty run log, on every path including the rejection by the          *)
(* single-flight guard.                                                     *)
C19_ResultAlwaysHasLog ==
  \A r \in Runs :
    run[r].pc = "done" =>
      /\ ResultShape(run[r].result)
      /\ run[r].result.hasLog
      /\ run[r].result.log # <<>>

(* C19 amended: every result carries a boolean success and an error message *)
(* whenever success is false; the result of an accepted run (zero messages, *)
(* dry run, nothing to archive, archive-folder failure, thrown error,       *)
(* normal completion) also carries a non-empty log that starts with the     *)
(* run's first entry, while the result of a rejection by the single-flight  *)
(* guard carries success:false and its error message but no log.            *)
C19_LogUnlessRejected ==
  \A r \in Runs :
    run[r].pc = "done" =>
      /\ ResultShape(run[r].result)
      /\ run[r].result.kind
           \in {"rejected", "empty", "dryRun", "nothingToArchive",
                "archiveFolderFailed", "threw", "completed"}
      /\ run[r].result.success
           <=> run[r].result.kind
                 \in {"empty", "dryRun", "nothingToArchive", "completed"}
      /\ IF Rejected(r)
           THEN /\ ~run[r].result.hasLog
                /\ run[r].result.log = <<>>
                /\ run[r].result.error = "Processing already in progress"
           ELSE /\ run[r].result.hasLog
                /\ run[r].result.log # <<>>
                /\ run[r].result.log[1] = "start"
                /\ run[r].result.log = run[r].log

C19_Witness ==
  \E r, q \in Runs :
    /\ Rejected(r)
    /\ ~run[r].result.hasLog
    /\ run[r].result.error # ""
    /\ run[q].pc = "persisting"

\* a fetch pass of the run got an error from the Inbox
InboxFetchFailed(r) ==
  \E s \in CallsOf(r, "scan") : ~calls[r][s].ok

(* C20: a failure to fetch the Inbox, the required folder of a scan, is a   *)
(* run-level failure: the archive run returns success:false with the error  *)
(* surfaced to the caller.                                                  *)
C20_InboxFailureFailsRun ==
  \A r \in Runs :
    (run[r].pc = "done" /\ InboxFetchFailed(r)) =>
      /\ ~run[r].result.success
      /\ run[r].result.error # ""

(* ------------------- the scan's caps and page errors ------------------- *)

\* the scan is inside a fetchMessagesAcrossInboxAndSubfolders call
Scanning == scan.pc \in {"page", "returned"}

(* C21: at every point of a scan, for any number of folders and any page    *)
(* contents, the number of included messages never exceeds the global cap   *)
(* of 2000, and the per-folder fetch cap in effect lies between 50 and 2000 *)
(* inclusive (no page request asks beyond what that cap leaves).            *)
C21_CapsHold ==
  Scanning =>
    /\ scan.messagesLen <= MAX_EMAILS_TO_PROCESS
    /\ scan.includedFromFolder <= scan.messagesLen
    /\ PerFolderMax >= MIN_EMAILS_PER_FOLDER
    /\ PerFolderMax <= MAX_EMAILS_PER_FOLDER
    /\ scan.pc = "page" =>
         /\ scan.pageSize >= 1
         /\ scan.pageSize <= FINDITEM_PAGE_SIZE
         /\ scan.fetchedFromFolder + scan.pageSize <= PerFolderMax
         /\ scan.messagesLen + scan.pageSize <= MAX_EMAILS_TO_PROCESS

\* the list is full after a page longer than asked for, in a scan of two folders
C21_Witness ==
  /\ scan.pc = "returned"
  /\ scan.folderCount = 2
  /\ ~scan.honest
  /\ scan.messagesLen = MAX_EMAILS_TO_PROCESS
  /\ scan.fetchedFromFolder > scan.includedFromFolder

(* C22: in a scan over n folders the aggregator fetches from each folder at *)
(* most max(50, min(2000, floor(2000 / n))) items, so that the per-folder   *)
(* cap shrinks as the folder count grows.                                   *)
C22_PerFolderShare ==
  (Scanning /\ scan.honest) =>
    /\ scan.fetchedFromFolder <= calculatePerFolderLimit(scan.folderCount)
    /\ \A k \in 1..Len(scan.folderStats) :
         scan.folderStats[k].fetched <= calculatePerFolderLimit(scan.folderCount)

(* C24: a page fetch failure in one folder does not abort the scan: paging  *)
(* of that folder stops, the error is recorded in that folder's stats entry,*)
(* the messages included so far stay in the result, and the aggregator      *)
(* proceeds to every remaining folder.                                      *)
C24_PageErrorContained ==
  [][ (scan.pc = "page" /\ Len(scan'.folderStats) > Len(scan.folderStats)
       /\ scan'.folderStats[Len(scan.folderStats) + 1].error)
      => LET row == scan'.folderStats[Len(scan.folderStats) + 1]
         IN /\ row.folder = scan.folder
            /\ row.fetched = scan.fetchedFromFolder
            /\ row.included = scan.includedFromFolder
            /\ ~row.truncated
            /\ Len(scan'.folderStats) = Len(scan.folderStats) + 1
            /\ SubSeq(scan'.folderStats, 1, Len(scan.folderStats)) = scan.folderStats
            /\ scan'.messagesLen = scan.messagesLen
            /\ IF scan.folder < scan.folderCount
                 THEN /\ scan'.pc = "page"
                      /\ scan'.folder = scan.folder + 1
                      /\ scan'.fetchedFromFolder = 0
                      /\ scan'.pageIndex = 0
                 ELSE scan'.pc = "returned" ]_vars

\* the first of two folders failed on a later page, the second was paged
C24_Witness ==
  /\ scan.pc = "returned"
  /\ Len(scan.folderStats) = 2
  /\ scan.folderStats[1].error
  /\ scan.folderStats[1].included > 0
  /\ ~scan.folderStats[2].error
  /\ scan.folderStats[2].included > 0
  /\ scan.messagesLen = scan.folderStats[1].included + scan.folderStats[2].included


(* ----------------------- the merge of the pages ------------------------ *)

\* the k-th record that arrived is the first one carrying its id
FirstOccurrence(arrived, k) ==
  /\ HasStringId(arrived[k])
  /\ \A j \in 1..(k - 1) : arrived[j].id # arrived[k].id

FirstOccurrences(arrived) ==
  { k \in 1..Len(arrived) : FirstOccurrence(arrived, k) }

\* the n-th smallest member of a set of positions
NthOf(positions, n) ==
  CHOOSE k \in positions : Cardinality({ j \in positions : j <= k }) = n

(* C23: the message list of a scan holds no two records with the same id:   *)
(* an item returned by several pages or folder listings is included once,   *)
(* at the position of its first occurrence in folder-then-page-then-item    *)
(* order, and items without a string id are never included.                 *)
C23_FirstOccurrenceWins ==
  LET messages == merge.messages
      first == FirstOccurrences(merge.arrived)
  IN /\ \A m, n \in 1..Len(messages) : m # n => messages[m].id # messages[n].id
     /\ \A n \in 1..Len(messages) : HasStringId(messages[n])
     /\ Len(messages) = Cardinality(first)
     /\ \A n \in 1..Len(messages) : messages[n] = merge.arrived[NthOf(first, n)]

\* an id came from both folders and a record came without a string id
C23_Witness ==
  /\ Len(merge.messages) = 2
  /\ \E j, k \in 1..Len(merge.arrived) :
       /\ j < k
       /\ merge.arrived[j].id = merge.arrived[k].id
       /\ HasStringId(merge.arrived[j])
       /\ merge.arrived[j].sourceFolder = "Inbox"
       /\ merge.arrived[k].sourceFolder = "Sub"
  /\ \E k \in 1..Len(merge.arrived) : ~HasStringId(merge.arrived[k])


(* ------------------------- the triage pipeline ------------------------- *)

\* the positions of the calls of findOrCreateFolder in a call trace
Invocations(trace) ==
  { p \in 1..Len(trace) : trace[p].op = "findOrCreateFolder" }

FolderOps == {"findFolder", "createFolder"}

\* the last position of the remote calls findOrCreateFolder issued when it was
\* called at position p
LastOf(trace, p) ==
  CHOOSE q \in p..Len(trace) :
    /\ \A j \in (p + 1)..q : trace[j].op \in FolderOps
    /\ q < Len(trace) => trace[q + 1].op \notin FolderOps

\* the triage run is inside findOrCreateFolder
Resolving(t) == triage[t].pc \in {"find1", "create", "find2"}

(* C25: findOrCreate issues its calls in the order find, then create only   *)
(* if that find gave no id, then a single second find only if the create    *)
(* gave none; at most two finds and one create per call; it returns the id  *)
(* of the first step that yields one and fails only when all three yield    *)
(* none.                                                                    *)
C25_FindOrCreateProtocol ==
  \A t \in Triages :
    LET trace == triage[t].calls IN
    /\ \A p \in 1..Len(trace) :
         trace[p].op \in FolderOps =>
           \E q \in Invocations(trace) : q < p /\ p <= LastOf(trace, q)
    /\ \A p \in Invocations(trace) :
         LET last == LastOf(trace, p)
             n == last - p
             label == trace[p].dest
             over == ~(last = Len(trace) /\ Resolving(t))
         IN /\ n <= 3
            /\ \A j \in (p + 1)..last : trace[j].dest = label
            /\ n >= 1 => trace[p + 1].op = "findFolder"
            /\ n >= 2 => trace[p + 2].op = "createFolder" /\ ~trace[p + 1].ok
            /\ n >= 3 => trace[p + 3].op = "findFolder" /\ ~trace[p + 2].ok
            /\ ~over =>
                 /\ n = 0 <=> triage[t].pc = "find1"
                 /\ n = 1 <=> triage[t].pc = "create"
                 /\ n = 2 <=> triage[t].pc = "find2"
                 /\ n >= 1 => ~trace[last].ok
            /\ over =>
                 /\ n >= 1
                 /\ n < 3 => trace[last].ok
                 /\ triage[t].folderCache[label] =
                      (IF trace[last].ok THEN label ELSE "none")

\* one call of findOrCreate failed after three steps, another returned the id
\* of the folder it created
C25_Witness ==
  \E t \in Triages :
    LET trace == triage[t].calls IN
    /\ ~Resolving(t)
    /\ \E p \in Invocations(trace) :
         /\ LastOf(trace, p) = p + 3
         /\ ~trace[p + 3].ok
    /\ \E p \in Invocations(trace) :
         /\ LastOf(trace, p) = p + 2
         /\ trace[p + 2].ok

\* the ids of the first k emails of a run
FirstIds(locals, k) == { locals.emails[j].id : j \in 1..k }

ItemOps == {"getItem", "classify", "findOrCreateFolder", "move"}

(* C26: if cancellation is signaled after item k of n has been processed,   *)
(* the run stops at the check before item k + 1 and returns aborted:true    *)
(* with processed = k, results holding exactly the first k items, and no    *)
(* body fetch, classification, folder resolution or move issued for any     *)
(* item beyond k; no item is begun while the flag is set.                   *)
C26_AbortStopsAtK ==
  [][ \A t \in Triages :
        LET before == triage[t]
            after == triage'[t]
        IN /\ ( /\ Len(after.calls) > Len(before.calls)
                /\ after.calls[Len(after.calls)].op = "getItem" )
                => ~classificationAborted
           /\ ( /\ before.pc \in {"fetching", "classify", "find1", "create",
                                  "find2", "move"}
                /\ after.i < after.limit
                /\ after.i > before.i \/ before.pc = "fetching"
                /\ classificationAborted )
                => after.pc = "done" /\ after.result.aborted
           /\ ( before.pc # "done" /\ after.pc = "done" /\ after.result.aborted )
                => LET k == after.result.processed
                   IN /\ classificationAborted
                      /\ k = after.i
                      /\ k < after.limit
                      /\ after.result.results = after.results
                      /\ Len(after.results) = k
                      /\ \A j \in 1..k :
                           after.results[j].id = after.emails[j].id
                      /\ \A p \in 1..Len(after.calls) :
                           after.calls[p].op \in ItemOps
                             => after.calls[p].id \in FirstIds(after, k) ]_vars

\* a run stopped after its first item, which it had moved
C26_Witness ==
  \E t \in Triages :
    /\ triage[t].pc = "done"
    /\ triage[t].result.aborted
    /\ triage[t].result.processed = 1
    /\ triage[t].limit >= 2
    /\ triage[t].results[1].moved

(* C27: the cancellation flag is monotonic within a run: once set while a   *)
(* triage run is in flight it is never cleared before that run returns, for *)
(* any interleaving of abortClassification and askOllama messages.          *)
C27_FlagMonotonic ==
  [][ (classificationAborted /\ \E t \in Triages : InFlight(t))
        => classificationAborted' ]_vars

\* the number of moved results among the first k
RECURSIVE MovedAmong(_, _)
MovedAmong(results, k) ==
  IF k = 0 THEN 0
  ELSE MovedAmong(results, k - 1) + (IF results[k].moved THEN 1 ELSE 0)

(* C28: onProgress is invoked exactly once per processed item, after the    *)
(* item's result has been appended and with index equal to the number of    *)
(* results so far, on every path; it is never invoked for an item skipped   *)
(* by an abort, so the number of calls equals processed.                    *)
C28_ProgressOncePerItem ==
  \A t \in Triages :
    LET locals == triage[t] IN
    /\ Len(locals.onProgress) = Len(locals.results)
    /\ locals.i = Len(locals.results)
    /\ \A k \in 1..Len(locals.onProgress) :
         /\ locals.onProgress[k].current = k
         /\ locals.onProgress[k].resultsLen = k
         /\ locals.onProgress[k].lastResult = locals.results[k]
         /\ locals.onProgress[k].total = locals.limit
         /\ locals.onProgress[k].moved = MovedAmong(locals.results, k)
    /\ (locals.pc = "done" /\ locals.result.kind \in {"aborted", "complete"})
         => /\ Len(locals.onProgress) = locals.result.processed
            /\ locals.result.results = locals.results

\* a run whose items took the three paths: no label, a failed folder
\* resolution, a move
C28_Witness ==
  \E t \in Triages :
    /\ triage[t].pc = "done"
    /\ triage[t].result.kind = "complete"
    /\ Len(triage[t].onProgress) = 3
    /\ \E a, b, c \in 1..3 :
         /\ triage[t].results[a].error = "noFolder"
         /\ triage[t].results[b].moved
         /\ ~triage[t].results[c].moved
         /\ triage[t].results[c].folder # "none"

\* the items whose classification came back with an error
FailedItems(trace) ==
  { trace[p].id : p \in { q \in 1..Len(trace) :
                            trace[q].op = "classify" /\ ~trace[q].ok } }

(* C29: a classifier failure on one item never halts the batch and never    *)
(* causes a move: the item is recorded with an error and without a          *)
(* destination, no folder resolution and no moveItem call is made for it,   *)
(* and the loop continues with the next item.                               *)
C29_ClassifierFailureContained ==
  [][ \A t \in Triages :
        LET before == triage[t]
            after == triage'[t]
            p == Len(before.calls) + 1
        IN /\ \A q \in 1..Len(after.calls) :
                after.calls[q].op \in {"findOrCreateFolder", "move"}
                  => after.calls[q].id \notin FailedItems(after.calls)
           /\ ( /\ before.pc = "classify"
                /\ Len(after.calls) >= p
                /\ after.calls[p].op = "classify"
                /\ ~after.calls[p].ok )
                => LET recorded == after.results[Len(after.results)]
                   IN /\ Len(after.results) = Len(before.results) + 1
                      /\ recorded.id = after.calls[p].id
                      /\ recorded.error # "none"
                      /\ recorded.folder = "none"
                      /\ ~recorded.moved
                      /\ after.folderCache = before.folderCache
                      /\ after.movedCount = before.movedCount
                      /\ loc' = loc
                      /\ after.i = before.i + 1
                      /\ IF after.i < after.limit /\ ~classificationAborted
                           THEN /\ after.pc = "body"
                                /\ Len(after.calls) = p + 1
                                /\ after.calls[p + 1].op = "getItem"
                                /\ after.calls[p + 1].id
                                     = after.emails[after.i + 1].id
                           ELSE /\ after.pc = "done"
                                /\ Len(after.calls) = p ]_vars

\* the classifier failed on the first item and the second one was moved
C29_Witness ==
  \E t \in Triages :
    /\ triage[t].pc = "done"
    /\ triage[t].result.kind = "complete"
    /\ Len(triage[t].results) >= 2
    /\ triage[t].results[1].id \in FailedItems(triage[t].calls)
    /\ triage[t].results[1].error # "none"
    /\ triage[t].results[2].moved

\* the calls of findOrCreateFolder for a label in a call trace
InvocationsFor(trace, label) ==
  { p \in Invocations(trace) : trace[p].dest = label }

(* C30: within one triage run findOrCreate is called at most once per       *)
(* label: the first resolution of a label, whether it succeeded or failed,  *)
(* is the one used for every later item with that label, and the cache is   *)
(* not shared between runs.                                                 *)
C30_ResolvedOncePerLabel ==
  \A t \in Triages : \A label \in Labels :
    LET locals == triage[t]
        trace == locals.calls
        resolvingIt == Resolving(t) /\ locals.classification.folder = label
    IN /\ Cardinality(InvocationsFor(trace, label)) <= 1
       /\ Cardinality(InvocationsFor(trace, label)) = 1
            <=> (locals.folderCache[label] # "unset" \/ resolvingIt)
       /\ \A k \in 1..Len(locals.results) :
            locals.results[k].folder = label
              => /\ locals.folderCache[label] # "unset"
                 /\ locals.results[k].moved => locals.folderCache[label] = label
       /\ \A p \in 1..Len(trace) :
            (trace[p].op = "move" /\ trace[p].ok)
              => trace[p].dest = locals.folderCache[trace[p].dest]

\* a label an earlier run had resolved is resolved again by this run, and the
\* failed resolution is used for a second item with the label
C30_Witness ==
  \E t \in Triages : \E label \in Labels :
    /\ label \in everResolved
    /\ Cardinality(InvocationsFor(triage[t].calls, label)) = 1
    /\ triage[t].folderCache[label] = "none"
    /\ \E j, k \in 1..Len(triage[t].results) :
         /\ j < k
         /\ triage[t].results[j].folder = label
         /\ triage[t].results[k].folder = label


(* --------------------- moves and limits of a triage run ---------------- *)

\* the positions of the move calls for an item in a call trace
MoveCallsFor(trace, id) ==
  { p \in 1..Len(trace) : trace[p].op = "move" /\ trace[p].id = id }

\* the classification of the item came back with a label and without error
LabelReturned(trace, id) ==
  \E p \in 1..Len(trace) :
    /\ trace[p].op = "classify"
    /\ trace[p].id = id
    /\ trace[p].ok
    /\ trace[p].dest # "none"

(* C33: a triage run moves an item if and only if its classification        *)
(* returned a label without error and that label's folder resolved to an    *)
(* id; result.moved is true exactly when that move call succeeded, and the  *)
(* returned moved count equals the number of results with moved = true and  *)
(* never exceeds processed.                                                 *)
C33_MovedIffResolved ==
  \A t \in Triages :
    LET locals == triage[t]
        trace == locals.calls
    IN /\ \A k \in 1..Len(locals.results) :
            LET recorded == locals.results[k]
                moves == MoveCallsFor(trace, recorded.id)
            IN /\ Cardinality(moves) <= 1
               /\ moves # {}
                    <=> /\ LabelReturned(trace, recorded.id)
                        /\ locals.folderCache[recorded.folder] \in Labels
               /\ recorded.moved <=> \E p \in moves : trace[p].ok
               /\ \A p \in moves : trace[p].dest = recorded.folder
       /\ locals.movedCount = MovedAmong(locals.results, Len(locals.results))
       /\ (locals.pc = "done" /\ locals.result.kind \in {"aborted", "complete"})
            => /\ locals.result.moved
                    = MovedAmong(locals.result.results,
                                 Len(locals.result.results))
               /\ locals.result.moved <= locals.result.processed

\* a run with a moved item, an item whose move failed and an item without label
C33_Witness ==
  \E t \in Triages :
    /\ triage[t].pc = "done"
    /\ triage[t].result.kind = "complete"
    /\ triage[t].result.moved = 1
    /\ \E a, b, c \in 1..Len(triage[t].results) :
         /\ triage[t].results[a].moved
         /\ triage[t].results[b].error = "moveFailed"
         /\ triage[t].results[c].folder = "none"

\* the ids of the getItem calls of a trace, in order
RECURSIVE BodiesFetched(_, _)
BodiesFetched(trace, p) ==
  IF p > Len(trace) THEN <<>>
  ELSE (IF trace[p].op = "getItem" THEN <<trace[p].id>> ELSE <<>>)
         \o BodiesFetched(trace, p + 1)

(* C34: a triage run processes items strictly in input order and never more *)
(* than min(len(items), maxIterations), with maxIterations defaulting to 20 *)
(* when missing or non-positive; processed never exceeds that bound and the *)
(* total passed to onProgress equals it.                                    *)
C34_InOrderUpToLimit ==
  \A t \in Triages :
    LET locals == triage[t]
        effective == IF locals.maxIterations >= 1 THEN locals.maxIterations
                     ELSE 20
        bound == Min2(Len(locals.emails), effective)
        fetched == BodiesFetched(locals.calls, 1)
    IN /\ Len(locals.results) <= bound
       /\ Len(fetched) <= bound
       /\ \A k \in 1..Len(fetched) : fetched[k] = locals.emails[k].id
       /\ \A k \in 1..Len(locals.results) :
            locals.results[k].id = locals.emails[k].id
       /\ Len(fetched) \in {Len(locals.results), Len(locals.results) + 1}
       /\ \A k \in 1..Len(locals.onProgress) :
            locals.onProgress[k].total = bound
       /\ (locals.pc = "done" /\ locals.result.kind \in {"aborted", "complete"})
            => /\ locals.result.processed <= bound
               /\ locals.result.kind = "complete"
                    => locals.result.processed = bound

\* a run over three emails that stopped at its maxIterations of two
C34_Witness ==
  \E t \in Triages :
    /\ triage[t].pc = "done"
    /\ triage[t].result.kind = "complete"
    /\ triage[t].maxIterations = NItems - 1
    /\ Len(triage[t].emails) = NItems
    /\ triage[t].result.processed = NItems - 1
    /\ Len(triage[t].onProgress) = NItems - 1

(* C39: in a triage run every result either has moved = true or carries a   *)
(* non-empty error: an item is never recorded as not moved without an       *)
(* error, whether the cause is a classifier failure, a missing label, a     *)
(* failed destination-folder resolution or a failed move.                   *)
C39_UnmovedHasError ==
  \A t \in Triages : \A k \in 1..Len(triage[t].results) :
    triage[t].results[k].moved \/ triage[t].results[k].error # "none"


(* ------------------ the paging loop and the folder stats --------------- *)

\* the folder-stats entries a step appends
RowsAdded == Len(scan'.folderStats) - Len(scan.folderStats)

\* the step answers a page request and the loop asks for the folder's next page
PagesOn ==
  /\ scan'.pc = "page"
  /\ scan'.folder = scan.folder
  /\ RowsAdded = 0

(* C35: for each folder the paging loop ends after at most                  *)
(* ceil(perFolderCap / PAGE_SIZE) page requests and stops at the first      *)
(* short page, the first failing page, or when the per-folder or the global *)
(* cap is reached; a scan always terminates provided each remote call       *)
(* returns.                                                                 *)
C35_PagingTerminates ==
  /\ [](scan.pc = "page" =>
          scan.pageIndex + 1 <= CeilDiv(PerFolderMax, FINDITEM_PAGE_SIZE))
  /\ [][ scan.pc = "page" =>
           \/ /\ PagesOn
              /\ scan'.pageIndex = scan.pageIndex + 1
              /\ scan'.fetchedFromFolder - scan.fetchedFromFolder
                   >= scan.pageSize
              /\ scan'.fetchedFromFolder < PerFolderMax
              /\ scan'.messagesLen < MAX_EMAILS_TO_PROCESS
           \/ /\ RowsAdded = 1
              /\ LET row == scan'.folderStats[Len(scan'.folderStats)]
                 IN /\ row.folder = scan.folder
                    /\ \/ row.error
                       \/ row.fetched - scan.fetchedFromFolder < scan.pageSize
                       \/ row.fetched >= PerFolderMax
                       \/ scan'.messagesLen >= MAX_EMAILS_TO_PROCESS
                       \/ scan.pageIndex + 1
                            = CeilDiv(PerFolderMax, FINDITEM_PAGE_SIZE) ]_vars
  /\ (scan.pc = "page" ~> scan.pc = "returned")

\* a folder is left by a short page after its first full page
C35_Witness ==
  /\ scan.pc = "page"
  /\ scan.folder = 2
  /\ scan.folderStats[1].fetched > FINDITEM_PAGE_SIZE
  /\ scan.folderStats[1].fetched < 2 * FINDITEM_PAGE_SIZE
  /\ ~scan.folderStats[1].error

\* the sum of the included counts of the first k stats entries
RECURSIVE IncludedAmong(_, _)
IncludedAmong(stats, k) ==
  IF k = 0 THEN 0 ELSE stats[k].included + IncludedAmong(stats, k - 1)

(* C40: when a scan returns, the sum of `included` over the folder-stats    *)
(* entries equals the number of returned messages, each entry has included  *)
(* <= fetched, there is at most one entry per folder, in folder order, and  *)
(* there is no entry for a folder that was never reached because the global *)
(* cap was hit.                                                             *)
C40_StatsAccountForMessages ==
  scan.pc = "returned" =>
    LET stats == scan.folderStats
    IN /\ IncludedAmong(stats, Len(stats)) = scan.messagesLen
       /\ \A k \in 1..Len(stats) :
            /\ stats[k].included <= stats[k].fetched
            /\ stats[k].folder = k
       /\ Len(stats) <= scan.folderCount
       /\ \A k \in 1..(Len(stats) - 1) :
            IncludedAmong(stats, k) < MAX_EMAILS_TO_PROCESS
       /\ Len(stats) < scan.folderCount
            => scan.messagesLen >= MAX_EMAILS_TO_PROCESS

\* the global cap is reached in the first of two folders
C40_Witness ==
  /\ scan.pc = "returned"
  /\ scan.folderCount = 2
  /\ Len(scan.folderStats) = 1
  /\ scan.folderStats[1].included = MAX_EMAILS_TO_PROCESS
  /\ scan.honest


(* ------------------------ the folder set of a scan --------------------- *)

(* C36: the folder set of a scan always starts with the Inbox, holds at     *)
(* most 30 folders in total, contains subfolders only when includeSubfolders*)
(* was requested, and is exactly [Inbox] when the subfolder listing fails;  *)
(* a listing failure never fails the scan.                                  *)
C36_FolderSet ==
  /\ scan.pc # "threw"
  /\ scan.pc = "built" =>
       /\ Len(scan.folders) >= 1
       /\ Len(scan.folders) <= 30
       /\ scan.folders[1].name = "Inbox"
       /\ scan.folders[1].kind = "distinguished"
       /\ \A k \in 2..Len(scan.folders) :
            /\ scan.includeSubfolders
            /\ scan.folders[k].kind = "folderId"
            /\ \E j \in 1..Len(scan.listed) :
                 scan.listed[j].id = scan.folders[k].id
            /\ scan.folders[k].name # ""
       /\ (scan.includeSubfolders /\ scan.listing # "ok")
            => Len(scan.folders) = 1
       /\ ~scan.includeSubfolders => Len(scan.folders) = 1

\* more subfolders are listed than the set has room for
C36_Witness ==
  /\ scan.pc = "built"
  /\ scan.includeSubfolders
  /\ Len(scan.listed) = 31
  /\ \A k \in 1..Len(scan.listed) : scan.listed[k].id # 0
  /\ Len(scan.folders) = 30


(* ------------------------- dry runs in a row --------------------------- *)

\* a dry run has been answered after scanning without a failed remote call
CleanDryRunBefore == previous.kind \in {"dryRun", "empty"} /\ previous.faults = 0

(* C31: a dry run executed twice in a row against an unchanged mailbox      *)
(* yields identical foundCount, duplicateCount and toArchiveByFolder: the   *)
(* first dry run leaves no state (in-progress flag, cached reference set,   *)
(* persisted result) that changes the outcome of the second. Both scans     *)
(* ask for the same folders and meet no failing remote call.                *)
C31_DryRunIdempotent ==
  \A r \in Runs :
    (run[r].pc = "done" /\ CleanDryRunBefore) =>
      /\ lastProcessingResult = NoStoredResult
      /\ (\A q \in Runs : ~Active(q)) => ~processingInProgress
      /\ ( /\ ~Rejected(r)
           /\ run[r].faults = 0
           /\ run[r].includeSubfolders = previous.includeSubfolders )
           => /\ run[r].result.kind = previous.kind
              /\ run[r].result.foundCount = previous.foundCount
              /\ run[r].result.duplicateCount = previous.duplicateCount
              /\ run[r].result.toArchiveByFolder = previous.toArchiveByFolder
              /\ run[r].result.totalScanned = previous.totalScanned

\* the second of two clean dry runs over both folders has found a replied-to
\* message and a duplicate
C31_Witness ==
  \E r \in Runs :
    /\ run[r].pc = "done"
    /\ CleanDryRunBefore
    /\ previous.includeSubfolders
    /\ run[r].includeSubfolders
    /\ run[r].faults = 0
    /\ run[r].result.kind = "dryRun"
    /\ run[r].result.foundCount >= 1
    /\ run[r].result.duplicateCount >= 1
    /\ Len(run[r].result.toArchiveByFolder) >= 1


(* ----------------------------- the token store ------------------------- *)

\* the entries of a stored list that hold the token
EntriesOf(tokens, token) ==
  { k \in 1..Len(tokens) : tokens[k].token = token }

\* the step is the write of storeToken called by flush f
Writes(f) == flush[f].pc = "set" /\ flush'[f] # flush[f]

(* C32: after every storeToken write the stored list holds at most 50       *)
(* entries, no two entries share a token string and no entry has a capture  *)
(* timestamp 24 hours old or older; storing a token that is already present *)
(* updates its lastSeen and count instead of adding an entry.               *)
C32_StoreBounded ==
  [][ \A f \in Flushes :
        Writes(f) =>
          LET tokenData == flush[f].tokensToStore[flush[f].next]
              before == flush[f].read
              after == capturedTokens'
              was == EntriesOf(before, tokenData.token)
              is == EntriesOf(after, tokenData.token)
          IN /\ Len(after) <= 50
             /\ \A j, k \in 1..Len(after) :
                  after[j].token = after[k].token => j = k
             /\ \A k \in 1..Len(after) :
                  clock - after[k].timestamp < 24 * 60 * 60 * 1000
             /\ was # {} =>
                  /\ Len(after) <= Len(before)
                  /\ \A k \in is : \E j \in was :
                       /\ after[k].lastSeen = tokenData.timestamp
                       /\ after[k].count = before[j].count + 1
                       /\ after[k].timestamp = before[j].timestamp ]_vars

\* a token seen twice sits at the head of a full list with a count of two
C32_Witness ==
  /\ Len(capturedTokens) = MAX_TOKENS_STORED
  /\ capturedTokens[1].token \in 1..NTokens
  /\ capturedTokens[1].count = 2
  /\ capturedTokens[1].lastSeen > capturedTokens[1].timestamp

(* C38: no captured token is lost on its way to the stored list, unless the *)
(* 24-hour expiry or the cap of 50 drops it, for any interleaving of        *)
(* captures, timer firings and flushes: a write of storeToken, also one of  *)
(* an overlapping flush, never removes from the stored list a token that is *)
(* not expired while the list stays below the cap, and it leaves in the     *)
(* list every token its own flush has stored so far.                        *)
C38_NoCapturedTokenLost ==
  [][ \A f \in Flushes :
        Writes(f) =>
          /\ \A k \in 1..Len(capturedTokens) :
               \/ EntriesOf(capturedTokens', capturedTokens[k].token) # {}
               \/ clock - capturedTokens[k].timestamp >= TOKEN_EXPIRY_MS
               \/ Len(capturedTokens') = MAX_TOKENS_STORED
          /\ \A k \in 1..Len(flush[f].tokensToStore) :
               k <= flush[f].next =>
                 \/ EntriesOf(capturedTokens',
                              flush[f].tokensToStore[k].token) # {}
                 \/ Len(capturedTokens') = MAX_TOKENS_STORED ]_vars


(* --------------------- the archiveRepliedEmails handler ---------------- *)

(* C37: the archiveRepliedEmails handler tries the stored Microsoft tokens  *)
(* in priority order, outlook.cloud.microsoft first, until one works: when  *)
(* the run with one token fails, the next token is tried before a response  *)
(* is sent, so a failure is only answered after every token was tried.      *)
C37_TokensTriedUntilOneWorks ==
  /\ handler.pc = "running" =>
       /\ handler.tried >= 1
       /\ \A k \in 2..Len(handler.msTokens) :
            handler.msTokens[k].domain = "outlook.cloud.microsoft"
              => handler.msTokens[k - 1].domain = "outlook.cloud.microsoft"
  /\ (handler.pc = "done" /\ handler.response = "failure")
       => handler.tried = Len(handler.msTokens)


====
